---- MODULE Spec2Model ----
(***************************************************************************)
(* Version resolution of docker-perseus: the static dependency table       *)
(* perseus_deps, the dispatch lookups get_dep_version (install.py) and     *)
(* get_granular_dependency_version (generate.py), the Alpine channel       *)
(* lookup get_alpine_version, the Alpine package resolution                *)
(* get_alpine_pkg_string / get_alpine_pkgs, get_os_version, and the        *)
(* module-level resolution both scripts run when they are loaded.          *)
(*                                                                         *)
(* A Python str is a TLA+ string wherever the code only compares it with   *)
(* literals; where the code looks inside a string (a regular expression)   *)
(* the string is given as its sequence of characters and Str joins it.     *)
(* The Python value None is the constant None.                             *)
(***************************************************************************)
EXTENDS Naturals, Sequences, FiniteSets, TLC

VARIABLES
    dependencies_json,  \* content of the file dependencies.json read by get_os_version
    frames,             \* the frame of each running call of get_alpine_pkgs: its locals
    perseus_deps,       \* the module-level list perseus_deps of each script
    prev_call,          \* the call before this_call when it had the same function and arguments
    this_call           \* the last call made: function, arguments and outcome

vars == <<dependencies_json, frames, perseus_deps, prev_call, this_call>>

\* Python's None, as returned by the lookups when nothing matches.
None == "None"

\* The string a sequence of characters spells.
RECURSIVE Str(_)
Str(cs) == IF cs = <<>> THEN "" ELSE Head(cs) \o Str(Tail(cs))

(***************************************************************************)
(* Inputs.                                                                 *)
(***************************************************************************)

\* The characters "0.4.0-beta." that start every pre-release tag of perseus_deps.
BetaPrefix == <<"0", ".", "4", ".", "0", "-", "b", "e", "t", "a", ".">>

\* The tags of the 13 releases listed in perseus_deps, each as its characters.
ReleaseTags ==
    { <<"0", ".", "3", ".", "0">>, <<"0", ".", "3", ".", "1">>,
      <<"0", ".", "3", ".", "2">>, <<"0", ".", "3", ".", "3">>,
      <<"0", ".", "3", ".", "4">>, <<"0", ".", "3", ".", "5">> }
    \cup { BetaPrefix \o <<n>> : n \in {"1", "2", "3", "4", "5", "6", "7"} }

\* Tags that name no release of perseus_deps: pre-release tags sharing a numeric
\* prefix with a listed one, "0.3.1." (a listed tag plus a dot), plain numeric
\* tags, a tag ending in a newline, text, the empty string and the two Alpine
\* versions.
OtherTags ==
    { BetaPrefix \o <<"8">>,
      SubSeq(BetaPrefix, 1, 10),
      <<"0", ".", "4", ".", "0", "-", "r", "c", ".", "1">>,
      <<"0", ".", "3", ".", "1", ".">>,
      <<"0", ".", "3", ".", "6">>,
      <<"0", ".", "4", ".", "0">>,
      <<"0", ".", "1", "0", ".", "0">>,
      <<"1", ".", "0", ".", "0">>,
      <<"0", ".", "4", ".", "0", "\n">>,
      <<"l", "a", "t", "e", "s", "t">>,
      <<>>,
      <<"3", ".", "1", "5", ".", "6">>,
      <<"3", ".", "1", "6", ".", "2">> }

Tags == ReleaseTags \cup OtherTags

\* The dependency names the dispatch lookups have a case for.
DispatchNames ==
    { "binaryen", "bonnie", "browser-sync", "concurrently", "esbuild", "node",
      "npm", "nvm", "perseus-size-opt", "rustup", "rust", "serve",
      "tailwindcss", "wasm-pack" }

\* The package names install.py passes to get_alpine_pkgs when it is loaded.
alpine_package_names == <<"alpine-sdk", "gawk", "linux-headers", "openrc", "perl">>

(***************************************************************************)
(* get_alpine_version: the regular expression and the lookup.              *)
(***************************************************************************)

Digits == {"0", "1", "2", "3", "4", "5", "6", "7", "8", "9"}

DigitValue(c) ==
    CASE c = "0" -> 0 [] c = "1" -> 1 [] c = "2" -> 2 [] c = "3" -> 3 [] c = "4" -> 4
      [] c = "5" -> 5 [] c = "6" -> 6 [] c = "7" -> 7 [] c = "8" -> 8 [] c = "9" -> 9

\* int(s) for a string of decimal digits.
RECURSIVE int(_)
int(ds) ==
    IF ds = <<>> THEN 0
    ELSE int(SubSeq(ds, 1, Len(ds) - 1)) * 10 + DigitValue(ds[Len(ds)])

\* The pieces of cs between the occurrences of sep.
RECURSIVE Split(_, _)
Split(cs, sep) ==
    IF \E i \in 1..Len(cs) : cs[i] = sep
    THEN LET i == CHOOSE i \in 1..Len(cs) :
                      cs[i] = sep /\ \A j \in 1..(i - 1) : cs[j] # sep
         IN  <<SubSeq(cs, 1, i - 1)>> \o Split(SubSeq(cs, i + 1, Len(cs)), sep)
    ELSE <<cs>>

\* re.compile('^([0-9]{1,})\.([0-9]{1,})\.([0-9]{1,})$').match(tag): the three
\* groups, or <<>> when the pattern does not match. "$" matches at the end of the
\* string and also just before a newline that ends it.
semver_match(tag) ==
    LET body  == IF Len(tag) > 0 /\ tag[Len(tag)] = "\n"
                 THEN SubSeq(tag, 1, Len(tag) - 1) ELSE tag
        parts == Split(body, ".")
    IN  IF /\ Len(parts) = 3
           /\ \A k \in 1..3 : /\ parts[k] # <<>>
                              /\ \A i \in 1..Len(parts[k]) : parts[k][i] \in Digits
        THEN parts ELSE <<>>

\* install.py: get_alpine_version(tag).
get_alpine_version(tag) ==
    IF Str(tag) \in {"0.3.0", "0.3.1", "0.3.2", "0.3.3", "0.3.4", "0.3.5"}
    THEN "3.15.6"
    ELSE LET regex_match == semver_match(tag)
         IN  IF regex_match # <<>>
             THEN LET major_v == int(regex_match[1])
                      minor_v == int(regex_match[2])
                  IN  IF major_v = 0 /\ minor_v > 3 THEN "3.16.2" ELSE None
             ELSE None

\* generate.py: get_alpine_version(tag). The first pattern compiled into p is
\* overwritten by the second before it is used.
get_alpine_version_generate(tag) ==
    IF Str(tag) \in {"0.3.0", "0.3.1", "0.3.2", "0.3.3", "0.3.4", "0.3.5"}
    THEN "3.15.6"
    ELSE LET m == semver_match(tag)
         IN  IF m # <<>>
             THEN LET major_v == int(m[1])
                      minor_v == int(m[2])
                  IN  IF major_v = 0 /\ minor_v > 3 THEN "3.16.2" ELSE None
             ELSE None

\* src/install.py lines 714-744: PerseusRelease(tag, os), OperatingSystem(name, version, dep)
release_0_3_0_install ==
    [tag |-> "0.3.0",
     os  |-> [name |-> "alpine", version |-> "3.15.6",
              dep  |-> <<
                [name |-> "alpine-sdk",        version |-> "1.0-r1"],
                [name |-> "binaryen",          version |-> "104"],
                [name |-> "browser-sync",      version |-> "2.27.7"],
                [name |-> "concurrently",      version |-> "6.5.1"],
                [name |-> "esbuild",           version |-> "0.14.6"],
                [name |-> "git",               version |-> "2.34.1"],
                [name |-> "linux-headers",     version |-> "5.10.41-r0"],
                [name |-> "make",              version |-> "4.3-r0"],
                [name |-> "musl-dev",          version |-> "1.2.2-r7"],
                [name |-> "node",              version |-> "17.3.0"],
                [name |-> "npm",               version |-> "8.3.0"],
                [name |-> "openrc",            version |-> "0.44.7-r5"],
                [name |-> "openssl",           version |-> "1.1.1q"],
                [name |-> "perl",              version |-> "5.34.0-r1"],
                [name |-> "perseus-size-opt",  version |-> "0.1.7"],
                [name |-> "pkgconf",           version |-> "1.8.0-r0"],
                [name |-> "rust",              version |-> "1.57.0"],
                [name |-> "rustup",            version |-> "1.24.3"],
                [name |-> "serve",             version |-> "13.0.2"],
                [name |-> "tailwindcss",       version |-> "3.0.7"],
                [name |-> "wasm-pack",         version |-> "0.10.2"],
                [name |-> "zlib-dev",          version |-> "1.2.12-r3"]
              >>]]

\* src/install.py lines 745-775: PerseusRelease(tag, os), OperatingSystem(name, version, dep)
release_0_3_1_install ==
    [tag |-> "0.3.1",
     os  |-> [name |-> "alpine", version |-> "3.15.6",
              dep  |-> <<
                [name |-> "alpine-sdk",        version |-> "1.0-r1"],
                [name |-> "binaryen",          version |-> "104"],
                [name |-> "browser-sync",      version |-> "2.27.7"],
                [name |-> "concurrently",      version |-> "7.0.0"],
                [name |-> "esbuild",           version |-> "0.14.10"],
                [name |-> "git",               version |-> "2.34.1"],
                [name |-> "linux-headers",     version |-> "5.10.41-r0"],
                [name |-> "make",              version |-> "4.3-r0"],
                [name |-> "musl-dev",          version |-> "1.2.2-r7"],
                [name |-> "node",              version |-> "17.3.0"],
                [name |-> "npm",               version |-> "8.3.0"],
                [name |-> "openrc",            version |-> "0.44.7-r5"],
                [name |-> "openssl",           version |-> "1.1.1q"],
                [name |-> "perl",              version |-> "5.34.0-r1"],
                [name |-> "perseus-size-opt",  version |-> "0.1.7"],
                [name |-> "pkgconf",           version |-> "1.8.0-r0"],
                [name |-> "rust",              version |-> "1.57.0"],
                [name |-> "rustup",            version |-> "1.24.3"],
                [name |-> "serve",             version |-> "13.0.2"],
                [name |-> "tailwindcss",       version |-> "3.0.8"],
                [name |-> "wasm-pack",         version |-> "0.10.2"],
                [name |-> "zlib-dev",          version |-> "1.2.12-r3"]
              >>]]

\* src/install.py lines 776-806: PerseusRelease(tag, os), OperatingSystem(name, version, dep)
release_0_3_2_install ==
    [tag |-> "0.3.2",
     os  |-> [name |-> "alpine", version |-> "3.15.6",
              dep  |-> <<
                [name |-> "alpine-sdk",        version |-> "1.0-r1"],
                [name |-> "binaryen",          version |-> "104"],
                [name |-> "browser-sync",      version |-> "2.27.7"],
                [name |-> "concurrently",      version |-> "7.0.0"],
                [name |-> "esbuild",           version |-> "0.14.11"],
                [name |-> "git",               version |-> "2.34.1"],
                [name |-> "linux-headers",     version |-> "5.10.41-r0"],
                [name |-> "make",              version |-> "4.3-r0"],
                [name |-> "musl-dev",          version |-> "1.2.2-r7"],
                [name |-> "node",              version |-> "17.3.1"],
                [name |-> "npm",               version |-> "8.3.0"],
                [name |-> "openrc",            version |-> "0.44.7-r5"],
                [name |-> "openssl",           version |-> "1.1.1q"],
                [name |-> "perl",              version |-> "5.34.0-r1"],
                [name |-> "perseus-size-opt",  version |-> "0.1.7"],
                [name |-> "pkgconf",           version |-> "1.8.0-r0"],
                [name |-> "rust",              version |-> "1.57.0"],
                [name |-> "rustup",            version |-> "1.24.3"],
                [name |-> "serve",             version |-> "13.0.2"],
                [name |-> "tailwindcss",       version |-> "3.0.12"],
                [name |-> "wasm-pack",         version |-> "0.10.2"],
                [name |-> "zlib-dev",          version |-> "1.2.12-r3"]
              >>]]

\* src/install.py lines 807-837: PerseusRelease(tag, os), OperatingSystem(name, version, dep)
release_0_3_3_install ==
    [tag |-> "0.3.3",
     os  |-> [name |-> "alpine", version |-> "3.15.6",
              dep  |-> <<
                [name |-> "alpine-sdk",        version |-> "1.0-r1"],
                [name |-> "binaryen",          version |-> "105"],
                [name |-> "browser-sync",      version |-> "2.27.7"],
                [name |-> "concurrently",      version |-> "7.0.0"],
                [name |-> "esbuild",           version |-> "0.14.21"],
                [name |-> "git",               version |-> "2.35.1"],
                [name |-> "linux-headers",     version |-> "5.10.41-r0"],
                [name |-> "make",              version |-> "4.3-r0"],
                [name |-> "musl-dev",          version |-> "1.2.2-r7"],
                [name |-> "node",              version |-> "17.5.0"],
                [name |-> "npm",               version |-> "8.4.1"],
                [name |-> "openrc",            version |-> "0.44.7-r5"],
                [name |-> "openssl",           version |-> "1.1.1q"],
                [name |-> "perl",              version |-> "5.34.0-r1"],
                [name |-> "perseus-size-opt",  version |-> "0.1.7"],
                [name |-> "pkgconf",           version |-> "1.8.0-r0"],
                [name |-> "rust",              version |-> "1.58.1"],
                [name |-> "rustup",            version |-> "1.24.3"],
                [name |-> "serve",             version |-> "13.0.2"],
                [name |-> "tailwindcss",       version |-> "3.0.22"],
                [name |-> "wasm-pack",         version |-> "0.10.2"],
                [name |-> "zlib-dev",          version |-> "1.2.12-r3"]
              >>]]

\* src/install.py lines 838-868: PerseusRelease(tag, os), OperatingSystem(name, version, dep)
release_0_3_4_install ==
    [tag |-> "0.3.4",
     os  |-> [name |-> "alpine", version |-> "3.15.6",
              dep  |-> <<
                [name |-> "alpine-sdk",        version |-> "1.0-r1"],
                [name |-> "binaryen",          version |-> "105"],
                [name |-> "browser-sync",      version |-> "2.27.9"],
                [name |-> "concurrently",      version |-> "7.1.0"],
                [name |-> "esbuild",           version |-> "0.14.36"],
                [name |-> "git",               version |-> "2.36.0"],
                [name |-> "linux-headers",     version |-> "5.10.41-r0"],
                [name |-> "make",              version |-> "4.3-r0"],
                [name |-> "musl-dev",          version |-> "1.2.2-r7"],
                [name |-> "node",              version |-> "18.0.0"],
                [name |-> "npm",               version |-> "8.6.0"],
                [name |-> "openrc",            version |-> "0.44.7-r5"],
                [name |-> "openssl",           version |-> "1.1.1q"],
                [name |-> "perl",              version |-> "5.34.0-r1"],
                [name |-> "perseus-size-opt",  version |-> "0.1.8"],
                [name |-> "pkgconf",           version |-> "1.8.0-r0"],
                [name |-> "rust",              version |-> "1.60.0"],
                [name |-> "rustup",            version |-> "1.24.3"],
                [name |-> "serve",             version |-> "13.0.2"],
                [name |-> "tailwindcss",       version |-> "3.0.24"],
                [name |-> "wasm-pack",         version |-> "0.10.2"],
                [name |-> "zlib-dev",          version |-> "1.2.12-r3"]
              >>]]

\* src/install.py lines 869-899: PerseusRelease(tag, os), OperatingSystem(name, version, dep)
release_0_3_5_install ==
    [tag |-> "0.3.5",
     os  |-> [name |-> "alpine", version |-> "3.15.6",
              dep  |-> <<
                [name |-> "alpine-sdk",        version |-> "1.0-r1"],
                [name |-> "binaryen",          version |-> "105"],
                [name |-> "browser-sync",      version |-> "2.27.10"],
                [name |-> "concurrently",      version |-> "7.1.0"],
                [name |-> "esbuild",           version |-> "0.14.36"],
                [name |-> "git",               version |-> "2.36.0"],
                [name |-> "linux-headers",     version |-> "5.10.41-r0"],
                [name |-> "make",              version |-> "4.3-r0"],
                [name |-> "musl-dev",          version |-> "1.2.2-r7"],
                [name |-> "node",              version |-> "18.0.0"],
                [name |-> "npm",               version |-> "8.6.0"],
                [name |-> "openrc",            version |-> "0.44.7-r5"],
                [name |-> "openssl",           version |-> "1.1.1q"],
                [name |-> "perl",              version |-> "5.34.0-r1"],
                [name |-> "perseus-size-opt",  version |-> "0.1.9"],
                [name |-> "pkgconf",           version |-> "1.8.0-r0"],
                [name |-> "rust",              version |-> "1.60.0"],
                [name |-> "rustup",            version |-> "1.24.3"],
                [name |-> "serve",             version |-> "13.0.2"],
                [name |-> "tailwindcss",       version |-> "3.0.24"],
                [name |-> "wasm-pack",         version |-> "0.10.2"],
                [name |-> "zlib-dev",          version |-> "1.2.12-r3"]
              >>]]

\* src/install.py lines 900-930: PerseusRelease(tag, os), OperatingSystem(name, version, dep)
release_0_4_0_beta_1_install ==
    [tag |-> "0.4.0-beta.1",
     os  |-> [name |-> "alpine", version |-> "3.16.2",
              dep  |-> <<
                [name |-> "alpine-sdk",        version |-> "1.0-r1"],
                [name |-> "binaryen",          version |-> "108"],
                [name |-> "browser-sync",      version |-> "2.27.10"],
                [name |-> "concurrently",      version |-> "7.2.1"],
                [name |-> "esbuild",           version |-> "0.14.42"],
                [name |-> "git",               version |-> "2.36.1"],
                [name |-> "linux-headers",     version |-> "5.16.7-r1"],
                [name |-> "make",              version |-> "4.3-r0"],
                [name |-> "musl-dev",          version |-> "1.2.3-r0"],
                [name |-> "node",              version |-> "18.2.0"],
                [name |-> "npm",               version |-> "8.9.0"],
                [name |-> "openrc",            version |-> "0.44.10-r7"],
                [name |-> "openssl",           version |-> "1.1.1q"],
                [name |-> "perl",              version |-> "5.34.1-r0"],
                [name |-> "perseus-size-opt",  version |-> "0.1.7"],
                [name |-> "pkgconf",           version |-> "1.8.0-r1"],
                [name |-> "rust",              version |-> "1.61.0"],
                [name |-> "rustup",            version |-> "1.24.3"],
                [name |-> "serve",             version |-> "13.0.2"],
                [name |-> "tailwindcss",       version |-> "3.0.24"],
                [name |-> "wasm-pack",         version |-> "0.10.2"],
                [name |-> "zlib-dev",          version |-> "1.2.12-r3"]
              >>]]

\* src/install.py lines 931-961: PerseusRelease(tag, os), OperatingSystem(name, version, dep)
release_0_4_0_beta_2_install ==
    [tag |-> "0.4.0-beta.2",
     os  |-> [name |-> "alpine", version |-> "3.16.2",
              dep  |-> <<
                [name |-> "alpine-sdk",        version |-> "1.0-r1"],
                [name |-> "binaryen",          version |-> "109"],
                [name |-> "browser-sync",      version |-> "2.27.10"],
                [name |-> "concurrently",      version |-> "7.2.2"],
                [name |-> "esbuild",           version |-> "0.14.47"],
                [name |-> "git",               version |-> "2.36.2"],
                [name |-> "linux-headers",     version |-> "5.16.7-r1"],
                [name |-> "make",              version |-> "4.3-r0"],
                [name |-> "musl-dev",          version |-> "1.2.3-r0"],
                [name |-> "node",              version |-> "18.4.0"],
                [name |-> "npm",               version |-> "8.12.1"],
                [name |-> "openrc",            version |-> "0.44.10-r7"],
                [name |-> "openssl",           version |-> "1.1.1q"],
                [name |-> "perl",              version |-> "5.34.1-r0"],
                [name |-> "perseus-size-opt",  version |-> "0.1.7"],
                [name |-> "pkgconf",           version |-> "1.8.0-r1"],
                [name |-> "rust",              version |-> "1.61.0"],
                [name |-> "rustup",            version |-> "1.24.3"],
                [name |-> "serve",             version |-> "13.0.3"],
                [name |-> "tailwindcss",       version |-> "3.1.4"],
                [name |-> "wasm-pack",         version |-> "0.10.2"],
                [name |-> "zlib-dev",          version |-> "1.2.12-r3"]
              >>]]

\* src/install.py lines 962-992: PerseusRelease(tag, os), OperatingSystem(name, version, dep)
release_0_4_0_beta_3_install ==
    [tag |-> "0.4.0-beta.3",
     os  |-> [name |-> "alpine", version |-> "3.16.2",
              dep  |-> <<
                [name |-> "alpine-sdk",        version |-> "1.0-r1"],
                [name |-> "binaryen",          version |-> "109"],
                [name |-> "browser-sync",      version |-> "2.27.10"],
                [name |-> "concurrently",      version |-> "7.3.0"],
                [name |-> "esbuild",           version |-> "0.14.48"],
                [name |-> "git",               version |-> "2.37.1"],
                [name |-> "linux-headers",     version |-> "5.16.7-r1"],
                [name |-> "make",              version |-> "4.3-r0"],
                [name |-> "musl-dev",          version |-> "1.2.3-r0"],
                [name |-> "node",              version |-> "18.4.0"],
                [name |-> "npm",               version |-> "8.12.1"],
                [name |-> "openrc",            version |-> "0.44.10-r7"],
                [name |-> "openssl",           version |-> "1.1.1q"],
                [name |-> "perl",              version |-> "5.34.1-r0"],
                [name |-> "perseus-size-opt",  version |-> "0.1.7"],
                [name |-> "pkgconf",           version |-> "1.8.0-r1"],
                [name |-> "rust",              version |-> "1.62.0"],
                [name |-> "rustup",            version |-> "1.24.3"],
                [name |-> "serve",             version |-> "13.0.2"],
                [name |-> "tailwindcss",       version |-> "3.1.4"],
                [name |-> "wasm-pack",         version |-> "0.10.3"],
                [name |-> "zlib-dev",          version |-> "1.2.12-r3"]
              >>]]

\* src/install.py lines 993-1023: PerseusRelease(tag, os), OperatingSystem(name, version, dep)
release_0_4_0_beta_4_install ==
    [tag |-> "0.4.0-beta.4",
     os  |-> [name |-> "alpine", version |-> "3.16.2",
              dep  |-> <<
                [name |-> "alpine-sdk",        version |-> "1.0-r1"],
                [name |-> "binaryen",          version |-> "109"],
                [name |-> "browser-sync",      version |-> "2.27.10"],
                [name |-> "concurrently",      version |-> "7.3.0"],
                [name |-> "esbuild",           version |-> "0.14.49"],
                [name |-> "git",               version |-> "2.37.1"],
                [name |-> "linux-headers",     version |-> "5.16.7-r1"],
                [name |-> "make",              version |-> "4.3-r0"],
                [name |-> "musl-dev",          version |-> "1.2.3-r0"],
                [name |-> "node",              version |-> "18.6.0"],
                [name |-> "npm",               version |-> "8.13.2"],
                [name |-> "openrc",            version |-> "0.44.10-r7"],
                [name |-> "openssl",           version |-> "1.1.1q"],
                [name |-> "perl",              version |-> "5.34.1-r0"],
                [name |-> "perseus-size-opt",  version |-> "0.1.7"],
                [name |-> "pkgconf",           version |-> "1.8.0-r1"],
                [name |-> "rust",              version |-> "1.62.0"],
                [name |-> "rustup",            version |-> "1.24.3"],
                [name |-> "serve",             version |-> "13.0.2"],
                [name |-> "tailwindcss",       version |-> "3.1.6"],
                [name |-> "wasm-pack",         version |-> "0.10.3"],
                [name |-> "zlib-dev",          version |-> "1.2.12-r3"]
              >>]]

\* src/install.py lines 1024-1054: PerseusRelease(tag, os), OperatingSystem(name, version, dep)
release_0_4_0_beta_5_install ==
    [tag |-> "0.4.0-beta.5",
     os  |-> [name |-> "alpine", version |-> "3.16.2",
              dep  |-> <<
                [name |-> "alpine-sdk",        version |-> "1.0-r1"],
                [name |-> "binaryen",          version |-> "109"],
                [name |-> "browser-sync",      version |-> "2.27.10"],
                [name |-> "concurrently",      version |-> "7.3.0"],
                [name |-> "esbuild",           version |-> "0.14.49"],
                [name |-> "git",               version |-> "2.37.1"],
                [name |-> "linux-headers",     version |-> "5.16.7-r1"],
                [name |-> "make",              version |-> "4.3-r0"],
                [name |-> "musl-dev",          version |-> "1.2.3-r0"],
                [name |-> "node",              version |-> "18.6.0"],
                [name |-> "npm",               version |-> "8.13.2"],
                [name |-> "openrc",            version |-> "0.44.10-r7"],
                [name |-> "openssl",           version |-> "1.1.1q"],
                [name |-> "perl",              version |-> "5.34.1-r0"],
                [name |-> "perseus-size-opt",  version |-> "0.1.7"],
                [name |-> "pkgconf",           version |-> "1.8.0-r1"],
                [name |-> "rust",              version |-> "1.62.0"],
                [name |-> "rustup",            version |-> "1.25.1"],
                [name |-> "serve",             version |-> "13.0.4"],
                [name |-> "tailwindcss",       version |-> "3.1.6"],
                [name |-> "wasm-pack",         version |-> "0.10.3"],
                [name |-> "zlib-dev",          version |-> "1.2.12-r3"]
              >>]]

\* src/install.py lines 1055-1085: PerseusRelease(tag, os), OperatingSystem(name, version, dep)
release_0_4_0_beta_6_install ==
    [tag |-> "0.4.0-beta.6",
     os  |-> [name |-> "alpine", version |-> "3.16.2",
              dep  |-> <<
                [name |-> "alpine-sdk",        version |-> "1.0-r1"],
                [name |-> "binaryen",          version |-> "109"],
                [name |-> "browser-sync",      version |-> "2.27.10"],
                [name |-> "concurrently",      version |-> "7.3.0"],
                [name |-> "esbuild",           version |-> "0.15.3"],
                [name |-> "git",               version |-> "2.37.2"],
                [name |-> "linux-headers",     version |-> "5.16.7-r1"],
                [name |-> "make",              version |-> "4.3-r0"],
                [name |-> "musl-dev",          version |-> "1.2.3-r0"],
                [name |-> "node",              version |-> "18.7.0"],
                [name |-> "npm",               version |-> "8.15.0"],
                [name |-> "openrc",            version |-> "0.44.10-r7"],
                [name |-> "openssl",           version |-> "1.1.1q"],
                [name |-> "perl",              version |-> "5.34.1-r0"],
                [name |-> "perseus-size-opt",  version |-> "0.1.7"],
                [name |-> "pkgconf",           version |-> "1.8.0-r1"],
                [name |-> "rust",              version |-> "1.63.0"],
                [name |-> "rustup",            version |-> "1.25.1"],
                [name |-> "serve",             version |-> "14.0.1"],
                [name |-> "tailwindcss",       version |-> "3.1.8"],
                [name |-> "wasm-pack",         version |-> "0.10.3"],
                [name |-> "zlib-dev",          version |-> "1.2.12-r3"]
              >>]]

\* Mutant of release_0_4_0_beta_7_install: the entry without its last dependency,
\* zlib-dev.
release_0_4_0_beta_7_install_short ==
    [tag |-> "0.4.0-beta.7",
     os  |-> [name |-> "alpine", version |-> "3.16.2",
              dep  |-> SubSeq(release_0_4_0_beta_6_install.os.dep, 1, 21)]]

\* src/install.py lines 1086-1116: PerseusRelease(tag, os), OperatingSystem(name, version, dep)
release_0_4_0_beta_7_install ==
    [tag |-> "0.4.0-beta.7",
     os  |-> [name |-> "alpine", version |-> "3.16.2",
              dep  |-> <<
                [name |-> "alpine-sdk",        version |-> "1.0-r1"],
                [name |-> "binaryen",          version |-> "109"],
                [name |-> "browser-sync",      version |-> "2.27.10"],
                [name |-> "concurrently",      version |-> "7.3.0"],
                [name |-> "esbuild",           version |-> "0.15.3"],
                [name |-> "git",               version |-> "2.37.2"],
                [name |-> "linux-headers",     version |-> "5.16.7-r1"],
                [name |-> "make",              version |-> "4.3-r0"],
                [name |-> "musl-dev",          version |-> "1.2.3-r0"],
                [name |-> "node",              version |-> "18.7.0"],
                [name |-> "npm",               version |-> "8.15.0"],
                [name |-> "openrc",            version |-> "0.44.10-r7"],
                [name |-> "openssl",           version |-> "1.1.1q"],
                [name |-> "perl",              version |-> "5.34.1-r0"],
                [name |-> "perseus-size-opt",  version |-> "0.1.7"],
                [name |-> "pkgconf",           version |-> "1.8.0-r1"],
                [name |-> "rust",              version |-> "1.63.0"],
                [name |-> "rustup",            version |-> "1.25.1"],
                [name |-> "serve",             version |-> "14.0.1"],
                [name |-> "tailwindcss",       version |-> "3.1.8"],
                [name |-> "wasm-pack",         version |-> "0.10.3"],
                [name |-> "zlib-dev",          version |-> "1.2.12-r3"]
              >>]]

\* src/install.py lines 713-1117: the list perseus_deps, in source order
perseus_deps_install ==
    << release_0_3_0_install,
       release_0_3_1_install,
       release_0_3_2_install,
       release_0_3_3_install,
       release_0_3_4_install,
       release_0_3_5_install,
       release_0_4_0_beta_1_install,
       release_0_4_0_beta_2_install,
       release_0_4_0_beta_3_install,
       release_0_4_0_beta_4_install,
       release_0_4_0_beta_5_install,
       release_0_4_0_beta_6_install,
       release_0_4_0_beta_7_install >>

\* src/generate.py lines 328-358: PerseusRelease(tag, os), OperatingSystem(name, version, dep)
release_0_3_0_generate ==
    [tag |-> "0.3.0",
     os  |-> [name |-> "alpine", version |-> "3.15.6",
              dep  |-> <<
                [name |-> "alpine-sdk",        version |-> "1.0-r1"],
                [name |-> "binaryen",          version |-> "104"],
                [name |-> "browser-sync",      version |-> "2.27.7"],
                [name |-> "concurrently",      version |-> "6.5.1"],
                [name |-> "esbuild",           version |-> "0.14.6"],
                [name |-> "git",               version |-> "2.34.1"],
                [name |-> "linux-headers",     version |-> "5.10.41-r0"],
                [name |-> "make",              version |-> "4.3-r0"],
                [name |-> "musl-dev",          version |-> "1.2.2-r7"],
                [name |-> "node",              version |-> "17.3.0"],
                [name |-> "npm",               version |-> "8.3.0"],
                [name |-> "openrc",            version |-> "0.44.7-r5"],
                [name |-> "openssl",           version |-> "1.1.1q"],
                [name |-> "perl",              version |-> "5.34.0-r1"],
                [name |-> "perseus-size-opt",  version |-> "0.1.7"],
                [name |-> "pkgconf",           version |-> "1.8.0-r0"],
                [name |-> "rust",              version |-> "1.57.0"],
                [name |-> "rustup",            version |-> "1.24.3"],
                [name |-> "serve",             version |-> "13.0.2"],
                [name |-> "tailwindcss",       version |-> "3.0.7"],
                [name |-> "wasm-pack",         version |-> "0.10.2"],
                [name |-> "zlib-dev",          version |-> "1.2.12-r3"]
              >>]]

\* Mutant of release_0_3_1_generate: the last line of the entry repeats wasm-pack
\* where zlib-dev belongs.
release_0_3_1_generate_repeated ==
    [tag |-> "0.3.1",
     os  |-> [name |-> "alpine", version |-> "3.15.6",
              dep  |-> [release_0_3_0_generate.os.dep EXCEPT
                            ![22] = [name |-> "wasm-pack", version |-> "0.10.2"]]]]

\* src/generate.py lines 359-389: PerseusRelease(tag, os), OperatingSystem(name, version, dep)
release_0_3_1_generate ==
    [tag |-> "0.3.1",
     os  |-> [name |-> "alpine", version |-> "3.15.6",
              dep  |-> <<
                [name |-> "alpine-sdk",        version |-> "1.0-r1"],
                [name |-> "binaryen",          version |-> "104"],
                [name |-> "browser-sync",      version |-> "2.27.7"],
                [name |-> "concurrently",      version |-> "7.0.0"],
                [name |-> "esbuild",           version |-> "0.14.10"],
                [name |-> "git",               version |-> "2.34.1"],
                [name |-> "linux-headers",     version |-> "5.10.41-r0"],
                [name |-> "make",              version |-> "4.3-r0"],
                [name |-> "musl-dev",          version |-> "1.2.2-r7"],
                [name |-> "node",              version |-> "17.3.0"],
                [name |-> "npm",               version |-> "8.3.0"],
                [name |-> "openrc",            version |-> "0.44.7-r5"],
                [name |-> "openssl",           version |-> "1.1.1q"],
                [name |-> "perl",              version |-> "5.34.0-r1"],
                [name |-> "perseus-size-opt",  version |-> "0.1.7"],
                [name |-> "pkgconf",           version |-> "1.8.0-r0"],
                [name |-> "rust",              version |-> "1.57.0"],
                [name |-> "rustup",            version |-> "1.24.3"],
                [name |-> "serve",             version |-> "13.0.2"],
                [name |-> "tailwindcss",       version |-> "3.0.8"],
                [name |-> "wasm-pack",         version |-> "0.10.2"],
                [name |-> "zlib-dev",          version |-> "1.2.12-r3"]
              >>]]

\* src/generate.py lines 390-420: PerseusRelease(tag, os), OperatingSystem(name, version, dep)
release_0_3_2_generate ==
    [tag |-> "0.3.2",
     os  |-> [name |-> "alpine", version |-> "3.15.6",
              dep  |-> <<
                [name |-> "alpine-sdk",        version |-> "1.0-r1"],
                [name |-> "binaryen",          version |-> "104"],
                [name |-> "browser-sync",      version |-> "2.27.7"],
                [name |-> "concurrently",      version |-> "7.0.0"],
                [name |-> "esbuild",           version |-> "0.14.11"],
                [name |-> "git",               version |-> "2.34.1"],
                [name |-> "linux-headers",     version |-> "5.10.41-r0"],
                [name |-> "make",              version |-> "4.3-r0"],
                [name |-> "musl-dev",          version |-> "1.2.2-r7"],
                [name |-> "node",              version |-> "17.3.1"],
                [name |-> "npm",               version |-> "8.3.0"],
                [name |-> "openrc",            version |-> "0.44.7-r5"],
                [name |-> "openssl",           version |-> "1.1.1q"],
                [name |-> "perl",              version |-> "5.34.0-r1"],
                [name |-> "perseus-size-opt",  version |-> "0.1.7"],
                [name |-> "pkgconf",           version |-> "1.8.0-r0"],
                [name |-> "rust",              version |-> "1.57.0"],
                [name |-> "rustup",            version |-> "1.24.3"],
                [name |-> "serve",             version |-> "13.0.2"],
                [name |-> "tailwindcss",       version |-> "3.0.12"],
                [name |-> "wasm-pack",         version |-> "0.10.2"],
                [name |-> "zlib-dev",          version |-> "1.2.12-r3"]
              >>]]

\* src/generate.py lines 421-451: PerseusRelease(tag, os), OperatingSystem(name, version, dep)
release_0_3_3_generate ==
    [tag |-> "0.3.3",
     os  |-> [name |-> "alpine", version |-> "3.15.6",
              dep  |-> <<
                [name |-> "alpine-sdk",        version |-> "1.0-r1"],
                [name |-> "binaryen",          version |-> "105"],
                [name |-> "browser-sync",      version |-> "2.27.7"],
                [name |-> "concurrently",      version |-> "7.0.0"],
                [name |-> "esbuild",           version |-> "0.14.21"],
                [name |-> "git",               version |-> "2.35.1"],
                [name |-> "linux-headers",     version |-> "5.10.41-r0"],
                [name |-> "make",              version |-> "4.3-r0"],
                [name |-> "musl-dev",          version |-> "1.2.2-r7"],
                [name |-> "node",              version |-> "17.5.0"],
                [name |-> "npm",               version |-> "8.4.1"],
                [name |-> "openrc",            version |-> "0.44.7-r5"],
                [name |-> "openssl",           version |-> "1.1.1q"],
                [name |-> "perl",              version |-> "5.34.0-r1"],
                [name |-> "perseus-size-opt",  version |-> "0.1.7"],
                [name |-> "pkgconf",           version |-> "1.8.0-r0"],
                [name |-> "rust",              version |-> "1.58.1"],
                [name |-> "rustup",            version |-> "1.24.3"],
                [name |-> "serve",             version |-> "13.0.2"],
                [name |-> "tailwindcss",       version |-> "3.0.22"],
                [name |-> "wasm-pack",         version |-> "0.10.2"],
                [name |-> "zlib-dev",          version |-> "1.2.12-r3"]
              >>]]

\* src/generate.py lines 452-482: PerseusRelease(tag, os), OperatingSystem(name, version, dep)
release_0_3_4_generate ==
    [tag |-> "0.3.4",
     os  |-> [name |-> "alpine", version |-> "3.15.6",
              dep  |-> <<
                [name |-> "alpine-sdk",        version |-> "1.0-r1"],
                [name |-> "binaryen",          version |-> "105"],
                [name |-> "browser-sync",      version |-> "2.27.9"],
                [name |-> "concurrently",      version |-> "7.1.0"],
                [name |-> "esbuild",           version |-> "0.14.36"],
                [name |-> "git",               version |-> "2.36.0"],
                [name |-> "linux-headers",     version |-> "5.10.41-r0"],
                [name |-> "make",              version |-> "4.3-r0"],
                [name |-> "musl-dev",          version |-> "1.2.2-r7"],
                [name |-> "node",              version |-> "18.0.0"],
                [name |-> "npm",               version |-> "8.6.0"],
                [name |-> "openrc",            version |-> "0.44.7-r5"],
                [name |-> "openssl",           version |-> "1.1.1q"],
                [name |-> "perl",              version |-> "5.34.0-r1"],
                [name |-> "perseus-size-opt",  version |-> "0.1.8"],
                [name |-> "pkgconf",           version |-> "1.8.0-r0"],
                [name |-> "rust",              version |-> "1.60.0"],
                [name |-> "rustup",            version |-> "1.24.3"],
                [name |-> "serve",             version |-> "13.0.2"],
                [name |-> "tailwindcss",       version |-> "3.0.24"],
                [name |-> "wasm-pack",         version |-> "0.10.2"],
                [name |-> "zlib-dev",          version |-> "1.2.12-r3"]
              >>]]

\* src/generate.py lines 483-513: PerseusRelease(tag, os), OperatingSystem(name, version, dep)
release_0_3_5_generate ==
    [tag |-> "0.3.5",
     os  |-> [name |-> "alpine", version |-> "3.15.6",
              dep  |-> <<
                [name |-> "alpine-sdk",        version |-> "1.0-r1"],
                [name |-> "binaryen",          version |-> "105"],
                [name |-> "browser-sync",      version |-> "2.27.10"],
                [name |-> "concurrently",      version |-> "7.1.0"],
                [name |-> "esbuild",           version |-> "0.14.36"],
                [name |-> "git",               version |-> "2.36.0"],
                [name |-> "linux-headers",     version |-> "5.10.41-r0"],
                [name |-> "make",              version |-> "4.3-r0"],
                [name |-> "musl-dev",          version |-> "1.2.2-r7"],
                [name |-> "node",              version |-> "18.0.0"],
                [name |-> "npm",               version |-> "8.6.0"],
                [name |-> "openrc",            version |-> "0.44.7-r5"],
                [name |-> "openssl",           version |-> "1.1.1q"],
                [name |-> "perl",              version |-> "5.34.0-r1"],
                [name |-> "perseus-size-opt",  version |-> "0.1.9"],
                [name |-> "pkgconf",           version |-> "1.8.0-r0"],
                [name |-> "rust",              version |-> "1.60.0"],
                [name |-> "rustup",            version |-> "1.24.3"],
                [name |-> "serve",             version |-> "13.0.2"],
                [name |-> "tailwindcss",       version |-> "3.0.24"],
                [name |-> "wasm-pack",         version |-> "0.10.2"],
                [name |-> "zlib-dev",          version |-> "1.2.12-r3"]
              >>]]

\* src/generate.py lines 514-544: PerseusRelease(tag, os), OperatingSystem(name, version, dep)
release_0_4_0_beta_1_generate ==
    [tag |-> "0.4.0-beta.1",
     os  |-> [name |-> "alpine", version |-> "3.16.2",
              dep  |-> <<
                [name |-> "alpine-sdk",        version |-> "1.0-r1"],
                [name |-> "binaryen",          version |-> "108"],
                [name |-> "browser-sync",      version |-> "2.27.10"],
                [name |-> "concurrently",      version |-> "7.2.1"],
                [name |-> "esbuild",           version |-> "0.14.42"],
                [name |-> "git",               version |-> "2.36.1"],
                [name |-> "linux-headers",     version |-> "5.16.7-r1"],
                [name |-> "make",              version |-> "4.3-r0"],
                [name |-> "musl-dev",          version |-> "1.2.3-r0"],
                [name |-> "node",              version |-> "18.2.0"],
                [name |-> "npm",               version |-> "8.9.0"],
                [name |-> "openrc",            version |-> "0.44.10-r7"],
                [name |-> "openssl",           version |-> "1.1.1q"],
                [name |-> "perl",              version |-> "5.34.1-r0"],
                [name |-> "perseus-size-opt",  version |-> "0.1.7"],
                [name |-> "pkgconf",           version |-> "1.8.0-r1"],
                [name |-> "rust",              version |-> "1.61.0"],
                [name |-> "rustup",            version |-> "1.24.3"],
                [name |-> "serve",             version |-> "13.0.2"],
                [name |-> "tailwindcss",       version |-> "3.0.24"],
                [name |-> "wasm-pack",         version |-> "0.10.2"],
                [name |-> "zlib-dev",          version |-> "1.2.12-r3"]
              >>]]

\* src/generate.py lines 545-575: PerseusRelease(tag, os), OperatingSystem(name, version, dep)
release_0_4_0_beta_2_generate ==
    [tag |-> "0.4.0-beta.2",
     os  |-> [name |-> "alpine", version |-> "3.16.2",
              dep  |-> <<
                [name |-> "alpine-sdk",        version |-> "1.0-r1"],
                [name |-> "binaryen",          version |-> "109"],
                [name |-> "browser-sync",      version |-> "2.27.10"],
                [name |-> "concurrently",      version |-> "7.2.2"],
                [name |-> "esbuild",           version |-> "0.14.47"],
                [name |-> "git",               version |-> "2.36.2"],
                [name |-> "linux-headers",     version |-> "5.16.7-r1"],
                [name |-> "make",              version |-> "4.3-r0"],
                [name |-> "musl-dev",          version |-> "1.2.3-r0"],
                [name |-> "node",              version |-> "18.4.0"],
                [name |-> "npm",               version |-> "8.12.1"],
                [name |-> "openrc",            version |-> "0.44.10-r7"],
                [name |-> "openssl",           version |-> "1.1.1q"],
                [name |-> "perl",              version |-> "5.34.1-r0"],
                [name |-> "perseus-size-opt",  version |-> "0.1.7"],
                [name |-> "pkgconf",           version |-> "1.8.0-r1"],
                [name |-> "rust",              version |-> "1.61.0"],
                [name |-> "rustup",            version |-> "1.24.3"],
                [name |-> "serve",             version |-> "13.0.3"],
                [name |-> "tailwindcss",       version |-> "3.1.4"],
                [name |-> "wasm-pack",         version |-> "0.10.2"],
                [name |-> "zlib-dev",          version |-> "1.2.12-r3"]
              >>]]

\* src/generate.py lines 576-606: PerseusRelease(tag, os), OperatingSystem(name, version, dep)
release_0_4_0_beta_3_generate ==
    [tag |-> "0.4.0-beta.3",
     os  |-> [name |-> "alpine", version |-> "3.16.2",
              dep  |-> <<
                [name |-> "alpine-sdk",        version |-> "1.0-r1"],
                [name |-> "binaryen",          version |-> "109"],
                [name |-> "browser-sync",      version |-> "2.27.10"],
                [name |-> "concurrently",      version |-> "7.3.0"],
                [name |-> "esbuild",           version |-> "0.14.48"],
                [name |-> "git",               version |-> "2.37.1"],
                [name |-> "linux-headers",     version |-> "5.16.7-r1"],
                [name |-> "make",              version |-> "4.3-r0"],
                [name |-> "musl-dev",          version |-> "1.2.3-r0"],
                [name |-> "node",              version |-> "18.4.0"],
                [name |-> "npm",               version |-> "8.12.1"],
                [name |-> "openrc",            version |-> "0.44.10-r7"],
                [name |-> "openssl",           version |-> "1.1.1q"],
                [name |-> "perl",              version |-> "5.34.1-r0"],
                [name |-> "perseus-size-opt",  version |-> "0.1.7"],
                [name |-> "pkgconf",           version |-> "1.8.0-r1"],
                [name |-> "rust",              version |-> "1.62.0"],
                [name |-> "rustup",            version |-> "1.24.3"],
                [name |-> "serve",             version |-> "13.0.2"],
                [name |-> "tailwindcss",       version |-> "3.1.4"],
                [name |-> "wasm-pack",         version |-> "0.10.3"],
                [name |-> "zlib-dev",          version |-> "1.2.12-r3"]
              >>]]

\* src/generate.py lines 607-637: PerseusRelease(tag, os), OperatingSystem(name, version, dep)
release_0_4_0_beta_4_generate ==
    [tag |-> "0.4.0-beta.4",
     os  |-> [name |-> "alpine", version |-> "3.16.2",
              dep  |-> <<
                [name |-> "alpine-sdk",        version |-> "1.0-r1"],
                [name |-> "binaryen",          version |-> "109"],
                [name |-> "browser-sync",      version |-> "2.27.10"],
                [name |-> "concurrently",      version |-> "7.3.0"],
                [name |-> "esbuild",           version |-> "0.14.49"],
                [name |-> "git",               version |-> "2.37.1"],
                [name |-> "linux-headers",     version |-> "5.16.7-r1"],
                [name |-> "make",              version |-> "4.3-r0"],
                [name |-> "musl-dev",          version |-> "1.2.3-r0"],
                [name |-> "node",              version |-> "18.6.0"],
                [name |-> "npm",               version |-> "8.13.2"],
                [name |-> "openrc",            version |-> "0.44.10-r7"],
                [name |-> "openssl",           version |-> "1.1.1q"],
                [name |-> "perl",              version |-> "5.34.1-r0"],
                [name |-> "perseus-size-opt",  version |-> "0.1.7"],
                [name |-> "pkgconf",           version |-> "1.8.0-r1"],
                [name |-> "rust",              version |-> "1.62.0"],
                [name |-> "rustup",            version |-> "1.24.3"],
                [name |-> "serve",             version |-> "13.0.2"],
                [name |-> "tailwindcss",       version |-> "3.1.6"],
                [name |-> "wasm-pack",         version |-> "0.10.3"],
                [name |-> "zlib-dev",          version |-> "1.2.12-r3"]
              >>]]

\* src/generate.py lines 638-668: PerseusRelease(tag, os), OperatingSystem(name, version, dep)
release_0_4_0_beta_5_generate ==
    [tag |-> "0.4.0-beta.5",
     os  |-> [name |-> "alpine", version |-> "3.16.2",
              dep  |-> <<
                [name |-> "alpine-sdk",        version |-> "1.0-r1"],
                [name |-> "binaryen",          version |-> "109"],
                [name |-> "browser-sync",      version |-> "2.27.10"],
                [name |-> "concurrently",      version |-> "7.3.0"],
                [name |-> "esbuild",           version |-> "0.14.49"],
                [name |-> "git",               version |-> "2.37.1"],
                [name |-> "linux-headers",     version |-> "5.16.7-r1"],
                [name |-> "make",              version |-> "4.3-r0"],
                [name |-> "musl-dev",          version |-> "1.2.3-r0"],
                [name |-> "node",              version |-> "18.6.0"],
                [name |-> "npm",               version |-> "8.13.2"],
                [name |-> "openrc",            version |-> "0.44.10-r7"],
                [name |-> "openssl",           version |-> "1.1.1q"],
                [name |-> "perl",              version |-> "5.34.1-r0"],
                [name |-> "perseus-size-opt",  version |-> "0.1.7"],
                [name |-> "pkgconf",           version |-> "1.8.0-r1"],
                [name |-> "rust",              version |-> "1.62.0"],
                [name |-> "rustup",            version |-> "1.25.1"],
                [name |-> "serve",             version |-> "13.0.4"],
                [name |-> "tailwindcss",       version |-> "3.1.6"],
                [name |-> "wasm-pack",         version |-> "0.10.3"],
                [name |-> "zlib-dev",          version |-> "1.2.12-r3"]
              >>]]

\* src/generate.py lines 669-699: PerseusRelease(tag, os), OperatingSystem(name, version, dep)
release_0_4_0_beta_6_generate ==
    [tag |-> "0.4.0-beta.6",
     os  |-> [name |-> "alpine", version |-> "3.16.2",
              dep  |-> <<
                [name |-> "alpine-sdk",        version |-> "1.0-r1"],
                [name |-> "binaryen",          version |-> "109"],
                [name |-> "browser-sync",      version |-> "2.27.10"],
                [name |-> "concurrently",      version |-> "7.3.0"],
                [name |-> "esbuild",           version |-> "0.15.3"],
                [name |-> "git",               version |-> "2.37.2"],
                [name |-> "linux-headers",     version |-> "5.16.7-r1"],
                [name |-> "make",              version |-> "4.3-r0"],
                [name |-> "musl-dev",          version |-> "1.2.3-r0"],
                [name |-> "node",              version |-> "18.7.0"],
                [name |-> "npm",               version |-> "8.15.0"],
                [name |-> "openrc",            version |-> "0.44.10-r7"],
                [name |-> "openssl",           version |-> "1.1.1q"],
                [name |-> "perl",              version |-> "5.34.1-r0"],
                [name |-> "perseus-size-opt",  version |-> "0.1.7"],
                [name |-> "pkgconf",           version |-> "1.8.0-r1"],
                [name |-> "rust",              version |-> "1.63.0"],
                [name |-> "rustup",            version |-> "1.25.1"],
                [name |-> "serve",             version |-> "14.0.1"],
                [name |-> "tailwindcss",       version |-> "3.1.8"],
                [name |-> "wasm-pack",         version |-> "0.10.3"],
                [name |-> "zlib-dev",          version |-> "1.2.12-r3"]
              >>]]

\* src/generate.py lines 700-730: PerseusRelease(tag, os), OperatingSystem(name, version, dep)
release_0_4_0_beta_7_generate ==
    [tag |-> "0.4.0-beta.7",
     os  |-> [name |-> "alpine", version |-> "3.16.2",
              dep  |-> <<
                [name |-> "alpine-sdk",        version |-> "1.0-r1"],
                [name |-> "binaryen",          version |-> "109"],
                [name |-> "browser-sync",      version |-> "2.27.10"],
                [name |-> "concurrently",      version |-> "7.3.0"],
                [name |-> "esbuild",           version |-> "0.15.3"],
                [name |-> "git",               version |-> "2.37.2"],
                [name |-> "linux-headers",     version |-> "5.16.7-r1"],
                [name |-> "make",              version |-> "4.3-r0"],
                [name |-> "musl-dev",          version |-> "1.2.3-r0"],
                [name |-> "node",              version |-> "18.7.0"],
                [name |-> "npm",               version |-> "8.15.0"],
                [name |-> "openrc",            version |-> "0.44.10-r7"],
                [name |-> "openssl",           version |-> "1.1.1q"],
                [name |-> "perl",              version |-> "5.34.1-r0"],
                [name |-> "perseus-size-opt",  version |-> "0.1.7"],
                [name |-> "pkgconf",           version |-> "1.8.0-r1"],
                [name |-> "rust",              version |-> "1.63.0"],
                [name |-> "rustup",            version |-> "1.25.1"],
                [name |-> "serve",             version |-> "14.0.1"],
                [name |-> "tailwindcss",       version |-> "3.1.8"],
                [name |-> "wasm-pack",         version |-> "0.10.3"],
                [name |-> "zlib-dev",          version |-> "1.2.12-r3"]
              >>]]

\* Mutant of perseus_deps_generate: release 0.4.0-beta.2 is listed before
\* release 0.4.0-beta.1.
perseus_deps_generate_swapped ==
    << release_0_3_0_generate,
       release_0_3_1_generate,
       release_0_3_2_generate,
       release_0_3_3_generate,
       release_0_3_4_generate,
       release_0_3_5_generate,
       release_0_4_0_beta_2_generate,
       release_0_4_0_beta_1_generate,
       release_0_4_0_beta_3_generate,
       release_0_4_0_beta_4_generate,
       release_0_4_0_beta_5_generate,
       release_0_4_0_beta_6_generate,
       release_0_4_0_beta_7_generate >>

\* src/generate.py lines 327-731: the list perseus_deps, in source order
perseus_deps_generate ==
    << release_0_3_0_generate,
       release_0_3_1_generate,
       release_0_3_2_generate,
       release_0_3_3_generate,
       release_0_3_4_generate,
       release_0_3_5_generate,
       release_0_4_0_beta_1_generate,
       release_0_4_0_beta_2_generate,
       release_0_4_0_beta_3_generate,
       release_0_4_0_beta_4_generate,
       release_0_4_0_beta_5_generate,
       release_0_4_0_beta_6_generate,
       release_0_4_0_beta_7_generate >>

\* src/install.py lines 422-438: get_dep_version, case "binaryen"
get_dep_version_binaryen(tag) ==
    CASE tag \in {"0.3.0", "0.3.1", "0.3.2"} -> "104"
      [] tag \in {"0.3.3", "0.3.4", "0.3.5"} -> "105"
      [] tag \in {"0.4.0-beta.1"} -> "108"
      [] tag \in {"0.4.0-beta.2", "0.4.0-beta.3", "0.4.0-beta.4", "0.4.0-beta.5", "0.4.0-beta.6", "0.4.0-beta.7"} -> "109"
      [] OTHER -> None

\* src/install.py lines 439-440: get_dep_version, case "bonnie"
get_dep_version_bonnie(tag) ==
    "0.3.2"

\* src/install.py lines 441-457: get_dep_version, case "browser-sync"
get_dep_version_browser_sync(tag) ==
    CASE tag \in {"0.3.0", "0.3.1", "0.3.2", "0.3.3"} -> "2.27.7"
      [] tag \in {"0.3.4"} -> "2.27.9"
      [] tag \in {"0.3.5", "0.4.0-beta.1", "0.4.0-beta.2", "0.4.0-beta.3", "0.4.0-beta.4", "0.4.0-beta.5", "0.4.0-beta.6", "0.4.0-beta.7"} -> "2.27.10"
      [] OTHER -> None

\* src/install.py lines 458-477: get_dep_version, case "concurrently"
get_dep_version_concurrently(tag) ==
    CASE tag \in {"0.3.0"} -> "6.5.1"
      [] tag \in {"0.3.1", "0.3.2", "0.3.3"} -> "7.0.0"
      [] tag \in {"0.3.4", "0.3.5"} -> "7.1.0"
      [] tag \in {"0.4.0-beta.1"} -> "7.2.1"
      [] tag \in {"0.4.0-beta.2"} -> "7.2.2"
      [] tag \in {"0.4.0-beta.3", "0.4.0-beta.4", "0.4.0-beta.5", "0.4.0-beta.6", "0.4.0-beta.7"} -> "7.3.0"
      [] OTHER -> None

\* src/install.py lines 478-501: get_dep_version, case "esbuild"
get_dep_version_esbuild(tag) ==
    CASE tag \in {"0.3.0"} -> "0.14.6"
      [] tag \in {"0.3.1"} -> "0.14.10"
      [] tag \in {"0.3.2"} -> "0.14.11"
      [] tag \in {"0.3.3"} -> "0.14.21"
      [] tag \in {"0.3.4", "0.3.5"} -> "0.14.36"
      [] tag \in {"0.4.0-beta.1"} -> "0.14.42"
      [] tag \in {"0.4.0-beta.2"} -> "0.14.47"
      [] tag \in {"0.4.0-beta.3"} -> "0.14.48"
      [] tag \in {"0.4.0-beta.4", "0.4.0-beta.5"} -> "0.14.49"
      [] tag \in {"0.4.0-beta.6", "0.4.0-beta.7"} -> "0.15.3"
      [] OTHER -> None

\* src/install.py lines 502-521: get_dep_version, case "node"
get_dep_version_node(tag) ==
    CASE tag \in {"0.3.0", "0.3.1"} -> "17.3.0"
      [] tag \in {"0.3.2"} -> "17.3.1"
      [] tag \in {"0.3.3"} -> "17.5.0"
      [] tag \in {"0.3.4", "0.3.5"} -> "18.0.0"
      [] tag \in {"0.4.0-beta.1"} -> "18.2.0"
      [] tag \in {"0.4.0-beta.2", "0.4.0-beta.3"} -> "18.4.0"
      [] tag \in {"0.4.0-beta.4", "0.4.0-beta.5"} -> "18.6.0"
      [] tag \in {"0.4.0-beta.6", "0.4.0-beta.7"} -> "18.7.0"
      [] OTHER -> None

\* src/install.py lines 522-539: get_dep_version, case "npm"
get_dep_version_npm(tag) ==
    CASE tag \in {"0.3.0", "0.3.1.", "0.3.2"} -> "8.3.0"
      [] tag \in {"0.3.3"} -> "8.4.1"
      [] tag \in {"0.3.4", "0.3.5"} -> "8.6.0"
      [] tag \in {"0.4.0-beta.1"} -> "8.9.0"
      [] tag \in {"0.4.0-beta.2", "0.4.0-beta.3"} -> "8.12.1"
      [] tag \in {"0.4.0-beta.4", "0.4.0-beta.5"} -> "8.13.2"
      [] tag \in {"0.4.0-beta.6", "0.4.0-beta.7"} -> "8.15.0"
      [] OTHER -> None

\* src/install.py lines 540-541: get_dep_version, case "nvm"
get_dep_version_nvm(tag) ==
    "0.39.1"

\* src/install.py lines 542-551: get_dep_version, case "perseus-size-opt"
get_dep_version_perseus_size_opt(tag) ==
    CASE tag \in {"0.3.0", "0.3.1", "0.3.2", "0.3.3"} -> "0.1.7"
      [] tag \in {"0.3.4"} -> "0.1.8"
      [] tag \in {"0.3.5"} -> "0.1.9"
      [] OTHER -> None

\* src/install.py lines 552-570: get_dep_version, case "rustup"
get_dep_version_rustup(tag) ==
    CASE tag \in {"0.3.0", "0.3.1", "0.3.2", "0.3.3", "0.3.4", "0.3.5", "0.4.0-beta.1", "0.4.0-beta.2", "0.4.0-beta.3"} -> "1.24.3"
      [] tag \in {"0.4.0-beta.4", "0.4.0-beta.5", "0.4.0-beta.6", "0.4.0-beta.7"} -> "1.25.1"
      [] OTHER -> None

\* Mutant of get_dep_version_rust: "0.3.0" is missing from the first case.
get_dep_version_rust_without_030(tag) ==
    CASE tag \in {"0.3.1", "0.3.2"} -> "1.57.0"
      [] tag \in {"0.3.3"} -> "1.58.1"
      [] tag \in {"0.3.4", "0.3.5"} -> "1.60.0"
      [] tag \in {"0.4.0-beta.1", "0.4.0-beta.2"} -> "1.61.0"
      [] tag \in {"0.4.0-beta.3", "0.4.0-beta.4", "0.4.0-beta.5"} -> "1.62.0"
      [] tag \in {"0.4.0-beta.6", "0.4.0-beta.7"} -> "1.63.0"
      [] OTHER -> None

\* src/install.py lines 571-586: get_dep_version, case "rust"
get_dep_version_rust(tag) ==
    CASE tag \in {"0.3.0", "0.3.1", "0.3.2"} -> "1.57.0"
      [] tag \in {"0.3.3"} -> "1.58.1"
      [] tag \in {"0.3.4", "0.3.5"} -> "1.60.0"
      [] tag \in {"0.4.0-beta.1", "0.4.0-beta.2"} -> "1.61.0"
      [] tag \in {"0.4.0-beta.3", "0.4.0-beta.4", "0.4.0-beta.5"} -> "1.62.0"
      [] tag \in {"0.4.0-beta.6", "0.4.0-beta.7"} -> "1.63.0"
      [] OTHER -> None

\* src/install.py lines 587-606: get_dep_version, case "serve"
get_dep_version_serve(tag) ==
    CASE tag \in {"0.3.0", "0.3.1", "0.3.2", "0.3.3", "0.3.4", "0.3.5", "0.4.0-beta.1", "0.4.0-beta.2", "0.4.0-beta.3"} -> "13.0.2"
      [] tag \in {"0.4.0-beta.4"} -> "13.0.4"
      [] tag \in {"0.4.0-beta.5", "0.4.0-beta.6", "0.4.0-beta.7"} -> "14.0.1"
      [] OTHER -> None

\* src/install.py lines 607-631: get_dep_version, case "tailwindcss"
get_dep_version_tailwindcss(tag) ==
    CASE tag \in {"0.3.0"} -> "3.0.7"
      [] tag \in {"0.3.1"} -> "3.0.8"
      [] tag \in {"0.3.2"} -> "3.0.12"
      [] tag \in {"0.3.3"} -> "3.0.22"
      [] tag \in {"0.3.4", "0.3.5", "0.4.0-beta.1"} -> "3.0.24"
      [] tag \in {"0.4.0-beta.2", "0.4.0-beta.3"} -> "3.1.4"
      [] tag \in {"0.4.0-beta.4", "0.4.0-beta.5"} -> "3.1.6"
      [] tag \in {"0.4.0-beta.6", "0.4.0-beta.7"} -> "3.1.8"
      [] OTHER -> None

\* src/install.py lines 632-650: get_dep_version, case "wasm-pack"
get_dep_version_wasm_pack(tag) ==
    CASE tag \in {"0.3.0", "0.3.1", "0.3.2", "0.3.3", "0.3.4", "0.3.5", "0.4.0-beta.1"} -> "0.10.2"
      [] tag \in {"0.4.0-beta.2", "0.4.0-beta.3", "0.4.0-beta.4", "0.4.0-beta.5", "0.4.0-beta.6", "0.4.0-beta.7"} -> "0.10.3"
      [] OTHER -> None

\* src/install.py lines 420-652: get_dep_version(tag, dep), the outer match on dep
get_dep_version(tag, dep) ==
    CASE dep = "binaryen" -> get_dep_version_binaryen(tag)
      [] dep = "bonnie" -> get_dep_version_bonnie(tag)
      [] dep = "browser-sync" -> get_dep_version_browser_sync(tag)
      [] dep = "concurrently" -> get_dep_version_concurrently(tag)
      [] dep = "esbuild" -> get_dep_version_esbuild(tag)
      [] dep = "node" -> get_dep_version_node(tag)
      [] dep = "npm" -> get_dep_version_npm(tag)
      [] dep = "nvm" -> get_dep_version_nvm(tag)
      [] dep = "perseus-size-opt" -> get_dep_version_perseus_size_opt(tag)
      [] dep = "rustup" -> get_dep_version_rustup(tag)
      [] dep = "rust" -> get_dep_version_rust(tag)
      [] dep = "serve" -> get_dep_version_serve(tag)
      [] dep = "tailwindcss" -> get_dep_version_tailwindcss(tag)
      [] dep = "wasm-pack" -> get_dep_version_wasm_pack(tag)
      [] OTHER -> None

\* src/generate.py lines 55-71: get_granular_dependency_version, case "binaryen"
get_granular_dependency_version_binaryen(tag) ==
    CASE tag \in {"0.3.0", "0.3.1", "0.3.2"} -> "104"
      [] tag \in {"0.3.3", "0.3.4", "0.3.5"} -> "105"
      [] tag \in {"0.4.0-beta.1"} -> "108"
      [] tag \in {"0.4.0-beta.2", "0.4.0-beta.3", "0.4.0-beta.4", "0.4.0-beta.5", "0.4.0-beta.6", "0.4.0-beta.7"} -> "109"
      [] OTHER -> None

\* Mutant of get_granular_dependency_version_bonnie: generate.py pins another
\* version of bonnie than install.py.
get_granular_dependency_version_bonnie_other(tag) ==
    "0.3.1"

\* src/generate.py lines 72-73: get_granular_dependency_version, case "bonnie"
get_granular_dependency_version_bonnie(tag) ==
    "0.3.2"

\* src/generate.py lines 74-90: get_granular_dependency_version, case "browser-sync"
get_granular_dependency_version_browser_sync(tag) ==
    CASE tag \in {"0.3.0", "0.3.1", "0.3.2", "0.3.3"} -> "2.27.7"
      [] tag \in {"0.3.4"} -> "2.27.9"
      [] tag \in {"0.3.5", "0.4.0-beta.1", "0.4.0-beta.2", "0.4.0-beta.3", "0.4.0-beta.4", "0.4.0-beta.5", "0.4.0-beta.6", "0.4.0-beta.7"} -> "2.27.10"
      [] OTHER -> None

\* src/generate.py lines 91-110: get_granular_dependency_version, case "concurrently"
get_granular_dependency_version_concurrently(tag) ==
    CASE tag \in {"0.3.0"} -> "6.5.1"
      [] tag \in {"0.3.1", "0.3.2", "0.3.3"} -> "7.0.0"
      [] tag \in {"0.3.4", "0.3.5"} -> "7.1.0"
      [] tag \in {"0.4.0-beta.1"} -> "7.2.1"
      [] tag \in {"0.4.0-beta.2"} -> "7.2.2"
      [] tag \in {"0.4.0-beta.3", "0.4.0-beta.4", "0.4.0-beta.5", "0.4.0-beta.6", "0.4.0-beta.7"} -> "7.3.0"
      [] OTHER -> None

\* src/generate.py lines 111-134: get_granular_dependency_version, case "esbuild"
get_granular_dependency_version_esbuild(tag) ==
    CASE tag \in {"0.3.0"} -> "0.14.6"
      [] tag \in {"0.3.1"} -> "0.14.10"
      [] tag \in {"0.3.2"} -> "0.14.11"
      [] tag \in {"0.3.3"} -> "0.14.21"
      [] tag \in {"0.3.4", "0.3.5"} -> "0.14.36"
      [] tag \in {"0.4.0-beta.1"} -> "0.14.42"
      [] tag \in {"0.4.0-beta.2"} -> "0.14.47"
      [] tag \in {"0.4.0-beta.3"} -> "0.14.48"
      [] tag \in {"0.4.0-beta.4", "0.4.0-beta.5"} -> "0.14.49"
      [] tag \in {"0.4.0-beta.6", "0.4.0-beta.7"} -> "0.15.3"
      [] OTHER -> None

\* src/generate.py lines 135-154: get_granular_dependency_version, case "node"
get_granular_dependency_version_node(tag) ==
    CASE tag \in {"0.3.0", "0.3.1"} -> "17.3.0"
      [] tag \in {"0.3.2"} -> "17.3.1"
      [] tag \in {"0.3.3"} -> "17.5.0"
      [] tag \in {"0.3.4", "0.3.5"} -> "18.0.0"
      [] tag \in {"0.4.0-beta.1"} -> "18.2.0"
      [] tag \in {"0.4.0-beta.2", "0.4.0-beta.3"} -> "18.4.0"
      [] tag \in {"0.4.0-beta.4", "0.4.0-beta.5"} -> "18.6.0"
      [] tag \in {"0.4.0-beta.6", "0.4.0-beta.7"} -> "18.7.0"
      [] OTHER -> None

\* src/generate.py lines 155-172: get_granular_dependency_version, case "npm"
get_granular_dependency_version_npm(tag) ==
    CASE tag \in {"0.3.0", "0.3.1.", "0.3.2"} -> "8.3.0"
      [] tag \in {"0.3.3"} -> "8.4.1"
      [] tag \in {"0.3.4", "0.3.5"} -> "8.6.0"
      [] tag \in {"0.4.0-beta.1"} -> "8.9.0"
      [] tag \in {"0.4.0-beta.2", "0.4.0-beta.3"} -> "8.12.1"
      [] tag \in {"0.4.0-beta.4", "0.4.0-beta.5"} -> "8.13.2"
      [] tag \in {"0.4.0-beta.6", "0.4.0-beta.7"} -> "8.15.0"
      [] OTHER -> None

\* src/generate.py lines 173-174: get_granular_dependency_version, case "nvm"
get_granular_dependency_version_nvm(tag) ==
    "0.39.1"

\* src/generate.py lines 175-184: get_granular_dependency_version, case "perseus-size-opt"
get_granular_dependency_version_perseus_size_opt(tag) ==
    CASE tag \in {"0.3.0", "0.3.1", "0.3.2", "0.3.3"} -> "0.1.7"
      [] tag \in {"0.3.4"} -> "0.1.8"
      [] tag \in {"0.3.5"} -> "0.1.9"
      [] OTHER -> None

\* src/generate.py lines 185-203: get_granular_dependency_version, case "rustup"
get_granular_dependency_version_rustup(tag) ==
    CASE tag \in {"0.3.0", "0.3.1", "0.3.2", "0.3.3", "0.3.4", "0.3.5", "0.4.0-beta.1", "0.4.0-beta.2", "0.4.0-beta.3"} -> "1.24.3"
      [] tag \in {"0.4.0-beta.4", "0.4.0-beta.5", "0.4.0-beta.6", "0.4.0-beta.7"} -> "1.25.1"
      [] OTHER -> None

\* src/generate.py lines 204-219: get_granular_dependency_version, case "rust"
get_granular_dependency_version_rust(tag) ==
    CASE tag \in {"0.3.0", "0.3.1", "0.3.2"} -> "1.57.0"
      [] tag \in {"0.3.3"} -> "1.58.1"
      [] tag \in {"0.3.4", "0.3.5"} -> "1.60.0"
      [] tag \in {"0.4.0-beta.1", "0.4.0-beta.2"} -> "1.61.0"
      [] tag \in {"0.4.0-beta.3", "0.4.0-beta.4", "0.4.0-beta.5"} -> "1.62.0"
      [] tag \in {"0.4.0-beta.6", "0.4.0-beta.7"} -> "1.63.0"
      [] OTHER -> None

\* Mutant of get_granular_dependency_version_serve: "0.4.0-beta.6" is absent from
\* the last case, so only the tags up to beta.5 and beta.7 are matched.
get_granular_dependency_version_serve_without_beta6(tag) ==
    CASE tag \in {"0.3.0", "0.3.1", "0.3.2", "0.3.3", "0.3.4", "0.3.5", "0.4.0-beta.1", "0.4.0-beta.2", "0.4.0-beta.3"} -> "13.0.2"
      [] tag \in {"0.4.0-beta.4"} -> "13.0.4"
      [] tag \in {"0.4.0-beta.5", "0.4.0-beta.7"} -> "14.0.1"
      [] OTHER -> None

\* src/generate.py lines 220-239: get_granular_dependency_version, case "serve"
get_granular_dependency_version_serve(tag) ==
    CASE tag \in {"0.3.0", "0.3.1", "0.3.2", "0.3.3", "0.3.4", "0.3.5", "0.4.0-beta.1", "0.4.0-beta.2", "0.4.0-beta.3"} -> "13.0.2"
      [] tag \in {"0.4.0-beta.4"} -> "13.0.4"
      [] tag \in {"0.4.0-beta.5", "0.4.0-beta.6", "0.4.0-beta.7"} -> "14.0.1"
      [] OTHER -> None

\* src/generate.py lines 240-264: get_granular_dependency_version, case "tailwindcss"
get_granular_dependency_version_tailwindcss(tag) ==
    CASE tag \in {"0.3.0"} -> "3.0.7"
      [] tag \in {"0.3.1"} -> "3.0.8"
      [] tag \in {"0.3.2"} -> "3.0.12"
      [] tag \in {"0.3.3"} -> "3.0.22"
      [] tag \in {"0.3.4", "0.3.5", "0.4.0-beta.1"} -> "3.0.24"
      [] tag \in {"0.4.0-beta.2", "0.4.0-beta.3"} -> "3.1.4"
      [] tag \in {"0.4.0-beta.4", "0.4.0-beta.5"} -> "3.1.6"
      [] tag \in {"0.4.0-beta.6", "0.4.0-beta.7"} -> "3.1.8"
      [] OTHER -> None

\* src/generate.py lines 265-283: get_granular_dependency_version, case "wasm-pack"
get_granular_dependency_version_wasm_pack(tag) ==
    CASE tag \in {"0.3.0", "0.3.1", "0.3.2", "0.3.3", "0.3.4", "0.3.5", "0.4.0-beta.1"} -> "0.10.2"
      [] tag \in {"0.4.0-beta.2", "0.4.0-beta.3", "0.4.0-beta.4", "0.4.0-beta.5", "0.4.0-beta.6", "0.4.0-beta.7"} -> "0.10.3"
      [] OTHER -> None

\* src/generate.py lines 53-285: get_granular_dependency_version(tag, dep), the outer match on dep
get_granular_dependency_version(tag, dep) ==
    CASE dep = "binaryen" -> get_granular_dependency_version_binaryen(tag)
      [] dep = "bonnie" -> get_granular_dependency_version_bonnie(tag)
      [] dep = "browser-sync" -> get_granular_dependency_version_browser_sync(tag)
      [] dep = "concurrently" -> get_granular_dependency_version_concurrently(tag)
      [] dep = "esbuild" -> get_granular_dependency_version_esbuild(tag)
      [] dep = "node" -> get_granular_dependency_version_node(tag)
      [] dep = "npm" -> get_granular_dependency_version_npm(tag)
      [] dep = "nvm" -> get_granular_dependency_version_nvm(tag)
      [] dep = "perseus-size-opt" -> get_granular_dependency_version_perseus_size_opt(tag)
      [] dep = "rustup" -> get_granular_dependency_version_rustup(tag)
      [] dep = "rust" -> get_granular_dependency_version_rust(tag)
      [] dep = "serve" -> get_granular_dependency_version_serve(tag)
      [] dep = "tailwindcss" -> get_granular_dependency_version_tailwindcss(tag)
      [] dep = "wasm-pack" -> get_granular_dependency_version_wasm_pack(tag)
      [] OTHER -> None

(***************************************************************************)
(* Outcomes of a call: a returned value or a raised exception.             *)
(***************************************************************************)

Return(v) == [kind |-> "return", val |-> v]
Raise(e)  == [kind |-> "raise",  val |-> e]

(***************************************************************************)
(* The Alpine package registry and get_alpine_pkg_string.                  *)
(*                                                                         *)
(* A response is an exception raised by urlopen or by decode, or a body.   *)
(* A body is given as its words: the text between single spaces once every *)
(* newline has been replaced by a space. A word is [k, v]: k is the key    *)
(* "pkgname=", "pkgver=" or "pkgrel=" the word starts with ("" if none)    *)
(* and v is the rest of the word.                                          *)
(***************************************************************************)

Word(k, v) == [k |-> k, v |-> v]

\* An APKBUILD for package p as the registry serves it: a comment line, the three
\* assignments on lines of their own, and a final newline (the empty last word).
Apkbuild(p, ver, rel) ==
    << Word("", "#"), Word("pkgname=", p), Word("pkgver=", ver),
       Word("pkgrel=", rel), Word("", "") >>

Bodies ==
    { Apkbuild("perl", "5.34.0", "1"),
      Apkbuild("gawk", "5.1.1", "0"),
      \* no pkgrel assignment
      << Word("", "#"), Word("pkgname=", "perl"), Word("pkgver=", "5.34.0"), Word("", "") >>,
      \* pkgname is the first word of the body: no space precedes it
      << Word("pkgname=", "perl"), Word("pkgver=", "5.34.0"), Word("pkgrel=", "1"), Word("", "") >>,
      \* pkgrel is the last word: no space follows it
      << Word("", "#"), Word("pkgname=", "perl"), Word("pkgver=", "5.34.0"), Word("pkgrel=", "1") >>,
      \* two pkgname assignments
      << Word("", "#"), Word("pkgname=", "gawk"), Word("pkgname=", "perl"),
         Word("pkgver=", "5.34.0"), Word("pkgrel=", "1"), Word("", "") >>,
      \* an error page
      << Word("", "404:"), Word("", "Not"), Word("", "Found") >> }

Responses ==
    { [status |-> s, words |-> <<>>] : s \in {"URLError", "HTTPError", "UnicodeDecodeError"} }
    \cup { [status |-> "ok", words |-> b] : b \in Bodies }

\* re.compile('.* pkgname=([^ ]{1,}).* pkgver=([^ ]{1,}).* pkgrel=([^ ]{1,}) .*')
\* .search(pkg_data): the three groups, or <<>> when the pattern does not match.
\* Each key must follow a space and be followed by at least one non-space
\* character, the keys must come in this order, and a space must follow the
\* pkgrel value; each greedy ".*" takes the last occurrence that still matches.
apkbuild_search(words) ==
    LET n == Len(words)
        Key(i, k) == i >= 2 /\ words[i].k = k /\ words[i].v # ""
        Rels(j)   == { r \in (j + 1)..(n - 1) : Key(r, "pkgrel=") }
        Vers(i)   == { j \in (i + 1)..n : Key(j, "pkgver=") /\ Rels(j) # {} }
        Names     == { i \in 1..n : Key(i, "pkgname=") /\ Vers(i) # {} }
        Last(S)   == CHOOSE x \in S : \A y \in S : y <= x
    IN  IF Names = {} THEN <<>>
        ELSE LET i == Last(Names)
                 j == Last(Vers(i))
                 r == Last(Rels(j))
             IN  << words[i].v, words[j].v, words[r].v >>

\* Mutant of get_alpine_pkg_string: the fetch is tried for every tag.
get_alpine_pkg_string_any_tag(tag, pkg) ==
    Raise("NameError")

\* install.py: get_alpine_pkg_string(tag, pkg). The module imports Request and
\* urlopen from urllib.request but never binds the name "request", so the branch
\* that would fetch raises NameError before any request is made.
get_alpine_pkg_string(tag, pkg) ==
    IF tag \in {"3.15.6", "3.16.2"}
    THEN Raise("NameError")
    ELSE Return(None)

\* Mutant of get_alpine_pkg_string_generate: the revision is joined with "-"
\* in place of "-r".
get_alpine_pkg_string_generate_dash(tag, pkg, response) ==
    IF tag \in {"3.15.6", "3.16.2"}
    THEN IF response.status # "ok"
         THEN Raise(response.status)
         ELSE LET m == apkbuild_search(response.words)
              IN  IF m # <<>>
                  THEN LET pkg_name == m[1]
                           pkg_ver  == m[2]
                           pkg_rel  == m[3]
                       IN  IF pkg_name = pkg
                           THEN Return(pkg_name \o "=" \o pkg_ver \o "-" \o pkg_rel)
                           ELSE Return(None)
                  ELSE Return(None)
    ELSE Return(None)

\* generate.py: get_alpine_pkg_string(tag, pkg), given the registry's response to
\* the one request it makes. A match whose package name differs from pkg leaves
\* the function without a return statement: it returns None.
get_alpine_pkg_string_generate(tag, pkg, response) ==
    IF tag \in {"3.15.6", "3.16.2"}
    THEN IF response.status # "ok"
         THEN Raise(response.status)
         ELSE LET m == apkbuild_search(response.words)
              IN  IF m # <<>>
                  THEN LET pkg_name == m[1]
                           pkg_ver  == m[2]
                           pkg_rel  == m[3]
                       IN  IF pkg_name = pkg
                           THEN Return(pkg_name \o "=" \o pkg_ver \o "-r" \o pkg_rel)
                           ELSE Return(None)
                  ELSE Return(None)
    ELSE Return(None)

\* ' '.join(output) for a list of strings.
RECURSIVE join(_, _)
join(sep, output) ==
    IF output = <<>> THEN ""
    ELSE IF Len(output) = 1 THEN output[1]
    ELSE output[1] \o sep \o join(sep, Tail(output))

\* Mutant of get_alpine_pkgs: the packages that did not resolve are left out of
\* the joined string and no exception ends the call.
get_alpine_pkgs_skipping_unresolved(tag, pkg_name_arr) ==
    LET strings  == [i \in 1..Len(pkg_name_arr) |-> get_alpine_pkg_string(tag, pkg_name_arr[i])]
        resolved == SelectSeq(strings, LAMBDA s : s.kind = "return" /\ s.val # None)
    IN  Return(join(" ", [i \in 1..Len(resolved) |-> resolved[i].val]))

\* install.py: get_alpine_pkgs(tag, pkg_name_arr). The first call of
\* get_alpine_pkg_string that raises ends the loop; ' '.join raises TypeError
\* when an element of output is None.
get_alpine_pkgs(tag, pkg_name_arr) ==
    LET strings == [i \in 1..Len(pkg_name_arr) |-> get_alpine_pkg_string(tag, pkg_name_arr[i])]
        raised  == { i \in 1..Len(pkg_name_arr) : strings[i].kind = "raise" }
        output  == [i \in 1..Len(pkg_name_arr) |-> strings[i].val]
    IN  IF raised # {}
        THEN strings[CHOOSE i \in raised : \A k \in raised : i <= k]
        ELSE IF \E i \in 1..Len(output) : output[i] = None
        THEN Raise("TypeError")
        ELSE Return(join(" ", output))

(***************************************************************************)
(* dependencies.json and get_os_version.                                   *)
(***************************************************************************)

\* Mutant of open_dependencies_json: the file is opened with mode='w', which
\* creates or truncates it.
open_dependencies_json_for_writing(file) ==
    [file |-> [exists |-> TRUE, content |-> ""],
     out  |-> Raise("LookupError")]

\* open('dependencies.json', mode='r', encoding='uft-8', errors='strict') and
\* json.load of it: the file after the call and the outcome. The file is opened
\* for reading, so its content stays; "uft-8" names no codec, so open raises
\* LookupError once the file has been found.
open_dependencies_json(file) ==
    [file |-> file,
     out  |-> IF ~file.exists THEN Raise("FileNotFoundError") ELSE Raise("LookupError")]

\* install.py: get_os_version(perseus_version, os_name). The lookup
\* deps[perseus_version]['distributions'][os_name] is never reached.
get_os_version(perseus_version, os_name, file) ==
    open_dependencies_json(file)

(***************************************************************************)
(* The module-level resolution each script runs when it is loaded.         *)
(***************************************************************************)

\* install.py lines 654-676, for the tag assigned to perseus_version (as its
\* characters). get_alpine_pkgs is given perseus_version itself, not
\* alpine_version. An exception ends the load; otherwise the outcome is the
\* module's resolved globals.
module_level_install(perseus_version_chars) ==
    LET perseus_version == Str(perseus_version_chars)
        alpine_version  == get_alpine_version(perseus_version_chars)
        alpine_packages == get_alpine_pkgs(perseus_version, alpine_package_names)
    IN  IF alpine_packages.kind = "raise"
        THEN alpine_packages
        ELSE Return(
               [perseus_version   |-> perseus_version,
                alpine_version    |-> alpine_version,
                alpine_packages   |-> alpine_packages.val,
                binaryen_version  |-> get_dep_version(perseus_version, "binaryen"),
                bonnie_version    |-> get_dep_version(perseus_version, "bonnie"),
                esbuild_version   |-> get_dep_version(perseus_version, "esbuild"),
                node_version      |-> get_dep_version(perseus_version, "node"),
                npm_version       |-> get_dep_version(perseus_version, "npm"),
                nvm_version       |-> get_dep_version(perseus_version, "nvm"),
                rustup_version    |-> get_dep_version(perseus_version, "rustup"),
                rust_version      |-> get_dep_version(perseus_version, "rust"),
                wasm_pack_version |-> get_dep_version(perseus_version, "wasm-pack")])

\* generate.py lines 287-289.
module_level_generate(perseus_version_chars) ==
    Return([perseus_version |-> Str(perseus_version_chars),
            alpine_version  |-> get_alpine_version_generate(perseus_version_chars)])

(***************************************************************************)
(* The registries: URLs, requests and responses.                           *)
(*                                                                         *)
(* A response is what urlopen and read().decode() do with one request:     *)
(* status "URLError" or "HTTPError" (urlopen raises it),                   *)
(* "UnicodeDecodeError" (the body is not UTF-8) or "ok" with a body. A     *)
(* body is given by what the code looks for in its text; each adapter's    *)
(* section says which text a body stands for.                              *)
(***************************************************************************)

GH_API_URL == "https://api.github.com/repos/"
GH_RAW_URL == "https://raw.githubusercontent.com/"
PERSEUS_URL == GH_API_URL \o "framesurge/perseus/releases"
HUB_URL == "https://hub.docker.com/v2/namespaces/library/repositories/"

\* A repository URL '{0}<name>'.format(<base>): the base and the characters of
\* the name, and the string the two spell.
RepositoryUrl(base, name) == [base |-> base, name |-> name]
UrlString(u) == u.base \o Str(u.name)

ALPINE_URL == RepositoryUrl(HUB_URL, <<"a", "l", "p", "i", "n", "e">>)
DEBIAN_URL == RepositoryUrl(HUB_URL, <<"d", "e", "b", "i", "a", "n">>)
FEDORA_URL == RepositoryUrl(HUB_URL, <<"f", "e", "d", "o", "r", "a">>)
ROCKY_URL  == RepositoryUrl(HUB_URL, <<"r", "o", "c", "k", "y", "l", "i", "n", "u", "x">>)
UBUNTU_URL == RepositoryUrl(HUB_URL, <<"u", "b", "u", "n", "t", "u">>)

ALPINE_PKG_URL == << GH_RAW_URL \o "alpinelinux/aports/", "/main/", "APKBUILD" >>
DEBIAN_PKG_URL == "https://sources.debian.org/api/src/"
ROCKY_PKG_URL ==
    << "https://download.rockylinux.org/pub/rocky/", "/BaseOS/source/tree/Packages/" >>

\* ''.join(UBUNTU_PKG_URL) with %%DISTRO_SERIES%% replaced by distro_series.
ubuntu_pkg_url(distro_series, api_pkg) ==
    "https://api.launchpad.net/1.0/ubuntu/+archive/primary"
    \o "?ws.op=getPublishedSources"
    \o "&date_superceded=null"
    \o "&distro_series=https%3A%2F%2Fapi.launchpad.net%2F1.0%2F"
    \o "ubuntu%2F" \o distro_series
    \o "&exact_match=true"
    \o "&pocket=Updates"
    \o "&status=Published"
    \o "&source_name=" \o api_pkg

\* Request(url=data_url, headers=req_headers).
Request(url, headers) == [url |-> url, headers |-> headers]

\* One request and the response it received.
Exchange(req, response) == [req |-> req, response |-> response]

\* The outcome of a function that uses the network, and its exchanges in order.
Result(out, net) == [out |-> out, net |-> net]

\* What get_data returns when the request failed: Python's None, as a body that
\* holds no text. A body is a record with the field json, so that a caller can
\* tell the two apart.
NoData == [json |-> "None", value |-> <<>>]

\* install.py: get_data(data_url, content_type). HTTPError and URLError are
\* caught, printed and turned into the return value None; an error of decode
\* is not caught.
get_data(data_url, content_type, response) ==
    LET req_headers == IF content_type # None
                       THEN "Content-Type" :> content_type
                       ELSE "Content-Type" :> "text/html; charset=utf-8"
        req == Request(data_url, req_headers)
    IN  Result(CASE response.status \in {"HTTPError", "URLError"} -> Return(NoData)
                 [] response.status = "UnicodeDecodeError" -> Raise("UnicodeDecodeError")
                 [] OTHER -> Return(response.body),
               << Exchange(req, response) >>)

\* get_data called without its required argument content_type: Python raises
\* TypeError before the body of get_data runs, so no request is built.
get_data_without_content_type(data_url) ==
    Result(Raise("TypeError"), <<>>)

(***************************************************************************)
(* JSON bodies. A JSON text is given as the value it parses to: json is    *)
(* "invalid" for a text json.loads rejects, "null", "array" with its       *)
(* elements, or "object" with its members as a function from names to      *)
(* values.                                                                 *)
(***************************************************************************)

JsonInvalid == [json |-> "invalid", value |-> <<>>]
JsonNull == [json |-> "null", value |-> <<>>]
JsonArray(elements) == [json |-> "array", value |-> elements]
JsonObject(members) == [json |-> "object", value |-> members]

\* install.py: json_to_namespace(json_obj). json.loads raises JSONDecodeError
\* for a text that is not JSON and returns None for the text "null".
json_to_namespace(json_obj) ==
    CASE json_obj.json = "None" -> Return(NoData)
      [] json_obj.json = "invalid" -> Raise("JSONDecodeError")
      [] json_obj.json = "null" -> Return(NoData)
      [] OTHER -> Return(json_obj)

\* namespace.name raises AttributeError unless namespace is an object with that
\* member.
has_attribute(namespace, name) ==
    /\ namespace.json = "object"
    /\ name \in DOMAIN namespace.value

\* install.py: get_perseus_tags(). enumerate() raises TypeError for None and
\* for an object; an element without tag_name raises AttributeError.
get_perseus_tags(response) ==
    LET perseus_json == get_data(PERSEUS_URL, "application/json", response)
    IN  IF perseus_json.out.kind = "raise" THEN perseus_json
        ELSE LET perseus_namespace == json_to_namespace(perseus_json.out.val)
                 ns == perseus_namespace.val
             IN  Result(
                   IF perseus_namespace.kind = "raise" THEN perseus_namespace
                   ELSE IF ns.json # "array" THEN Raise("TypeError")
                   ELSE IF \E i \in DOMAIN ns.value : ~has_attribute(ns.value[i], "tag_name")
                   THEN Raise("AttributeError")
                   ELSE Return([i \in DOMAIN ns.value |-> ns.value[i].value.tag_name]),
                   perseus_json.net)

(***************************************************************************)
(* get_latest_distribution. The body of a Docker Hub repository is a JSON  *)
(* object; its member full_description is text in which the supported tags *)
(* are listed as [`tag`, `tag`, ...]. The text is given as its tag lists   *)
(* in order, each tag as its characters.                                   *)
(***************************************************************************)

Lowercase ==
    { "a", "b", "c", "d", "e", "f", "g", "h", "i", "j", "k", "l", "m",
      "n", "o", "p", "q", "r", "s", "t", "u", "v", "w", "x", "y", "z" }

\* The longest prefix of cs made of characters of class.
RECURSIVE Run(_, _)
Run(cs, class) ==
    IF cs # <<>> /\ Head(cs) \in class
    THEN <<Head(cs)>> \o Run(Tail(cs), class)
    ELSE <<>>

\* re.search('(?<=repositories/)[a-z]{1,}', linux_url): the match, or <<>> when
\* there is none. Of the bases used, HUB_URL alone holds "repositories/", at its
\* end.
repositories_search(linux_url) ==
    IF linux_url.base = HUB_URL THEN Run(linux_url.name, Lowercase) ELSE <<>>

\* [0-9]{1,} matches the whole of cs.
IsNumber(cs) == cs # <<>> /\ \A i \in 1..Len(cs) : cs[i] \in Digits

\* n numbers separated by dots match the whole of cs.
IsDotted(cs, n) ==
    LET parts == Split(cs, ".")
    IN  Len(parts) = n /\ \A k \in 1..n : IsNumber(parts[k])

\* cs is head, then something that satisfies Middle, then tail.
Wraps(cs, head, Middle(_), tail) ==
    /\ Len(cs) >= Len(head) + Len(tail)
    /\ SubSeq(cs, 1, Len(head)) = head
    /\ SubSeq(cs, Len(cs) - Len(tail) + 1, Len(cs)) = tail
    /\ Middle(SubSeq(cs, Len(head) + 1, Len(cs) - Len(tail)))

IsDate(cs) == Len(cs) = 8 /\ IsNumber(cs)
IsDotted2(cs) == IsDotted(cs, 2)
IsDotted3(cs) == IsDotted(cs, 3)

\* The tag list a distribution's pattern re_str matches as a whole, from "[`" to
\* "]", and the position in it of the tag the pattern returns.
alpine_re_str(list) ==
    /\ Len(list) = 4
    /\ IsDotted3(list[1]) /\ IsDotted2(list[2]) /\ IsNumber(list[3])
    /\ list[4] = <<"l", "a", "t", "e", "s", "t">>

debian_re_str(list) ==
    /\ Len(list) = 4
    /\ list[1] = <<"b", "u", "l", "l", "s", "e", "y", "e", "-", "s", "l", "i", "m">>
    /\ Wraps(list[2], <<"b", "u", "l", "l", "s", "e", "y", "e", "-">>, IsDate, <<"-", "s", "l", "i", "m">>)
    /\ Wraps(list[3], <<>>, IsDotted2, <<"-", "s", "l", "i", "m">>)
    /\ Wraps(list[4], <<>>, IsNumber, <<"-", "s", "l", "i", "m">>)

fedora_re_str(list) ==
    /\ Len(list) = 2
    /\ IsNumber(list[1])
    /\ list[2] = <<"l", "a", "t", "e", "s", "t">>

ubuntu_re_str(list) ==
    /\ Len(list) = 4
    /\ IsDotted2(list[1])
    /\ Wraps(list[2], <<"j", "a", "m", "m", "y", "-">>, IsDate, <<>>)
    /\ list[3] = <<"j", "a", "m", "m", "y">>
    /\ list[4] = <<"l", "a", "t", "e", "s", "t">>

\* The distribution names get_latest_distribution has a pattern for.
PatternNames == {"alpine", "debian", "fedora", "rocky", "ubuntu"}

\* re.search(re_str, full_description) for the pattern of linux_name: the
\* matched tag of the first list the pattern matches, or <<>>.
distro_search(linux_name, full_description) ==
    LET Matches(list) ==
            CASE linux_name = "alpine" -> alpine_re_str(list)
              [] linux_name = "debian" -> debian_re_str(list)
              [] linux_name = "fedora" -> fedora_re_str(list)
              [] linux_name = "ubuntu" -> ubuntu_re_str(list)
        found == { i \in DOMAIN full_description : Matches(full_description[i]) }
    IN  IF found = {} THEN <<>>
        ELSE LET list == full_description[CHOOSE i \in found : \A k \in found : i <= k]
             IN  IF linux_name = "debian" THEN list[3] ELSE list[1]

\* install.py: get_latest_distribution(linux_url). The arguments of the last
\* re.search are evaluated in order: re_str is unbound for a name without a
\* branch (UnboundLocalError), then full_description is read (AttributeError),
\* then the pattern is compiled: the look-behind of the pattern for 'rocky' has
\* no fixed width, which re rejects (re.error).
get_latest_distribution(linux_url, response) ==
    LET name_match == repositories_search(linux_url)
    IN  IF name_match = <<>> THEN Result(Raise("AttributeError"), <<>>)
        ELSE
        LET linux_name == Str(name_match)
            distro_string == get_data(UrlString(linux_url), "application/json", response)
        IN  IF distro_string.out.kind = "raise" THEN distro_string
            ELSE
            LET distro_namespace == json_to_namespace(distro_string.out.val)
            IN  Result(
                  IF distro_namespace.kind = "raise" THEN distro_namespace
                  ELSE IF linux_name \notin PatternNames THEN Raise("UnboundLocalError")
                  ELSE IF ~has_attribute(distro_namespace.val, "full_description")
                  THEN Raise("AttributeError")
                  ELSE IF linux_name = "rocky" THEN Raise("error")
                  ELSE LET distro_latest ==
                               distro_search(linux_name,
                                             distro_namespace.val.value.full_description)
                       IN  IF distro_latest = <<>> THEN Raise("AttributeError")
                           ELSE Return(Str(distro_latest)),
                  distro_string.net)

(***************************************************************************)
(* The package-version adapters of install.py.                             *)
(***************************************************************************)

\* re.search('^[0-9]{1,}[\.]{1}[0-9]{1,}', alpine_release): the match, or <<>>.
release_prefix(alpine_release) ==
    LET major == Run(alpine_release, Digits)
        rest  == SubSeq(alpine_release, Len(major) + 1, Len(alpine_release))
        minor == IF rest # <<>> /\ rest[1] = "." THEN Run(Tail(rest), Digits) ELSE <<>>
    IN  IF major = <<>> \/ minor = <<>> THEN <<>>
        ELSE major \o <<".">> \o minor

\* install.py: get_alpine_package_version(alpine_release, pkg). The call
\* get_data(data_url=...) at line 178 gives no content_type, so it raises
\* TypeError; the three searches and the format of lines 180-184 are never
\* reached.
get_alpine_package_version(alpine_release, pkg) ==
    LET release_match == release_prefix(alpine_release)
    IN  IF release_match = <<>> THEN Result(Raise("AttributeError"), <<>>)
        ELSE
        LET stable_alpine == Str(release_match) \o "-stable"
            pkg_url == ALPINE_PKG_URL[1] \o stable_alpine \o ALPINE_PKG_URL[2]
                       \o pkg \o ALPINE_PKG_URL[3]
        IN  get_data_without_content_type(pkg_url)

\* The characters of [a-z0-9\.+-].
DebianVersionChars == Lowercase \cup Digits \cup {".", "+", "-"}

\* A body of sources.debian.org: the JSON object
\*   {"package":...,"versions":[{"area":...,"suites":[...],"version":"..."},...]}
\* given by its versions in order, each with its suites and the characters of
\* its version; compact tells whether the text has no space after "," and ":".
DebianBody(compact, versions) ==
    [json |-> "object", compact |-> compact, value |-> [versions |-> versions]]

NotDebianBody == [json |-> "invalid", compact |-> FALSE, value |-> [versions |-> <<>>]]

\* re.search of the pattern built from distro_series in '{0}'.format(pkg_json):
\* the version of the first entry whose suites are exactly [distro_series] and
\* whose version is made of the pattern's characters only, or <<>>. The pattern
\* has no spaces, so it matches only a compact text; the text 'None' that
\* format makes of None has no match.
debian_search(distro_series, pkg_json) ==
    IF pkg_json.json # "object" \/ ~pkg_json.compact THEN <<>>
    ELSE LET versions == pkg_json.value.versions
             found == { i \in DOMAIN versions :
                          /\ versions[i].suites = <<distro_series>>
                          /\ versions[i].version # <<>>
                          /\ \A k \in DOMAIN versions[i].version :
                                 versions[i].version[k] \in DebianVersionChars }
         IN  IF found = {} THEN <<>>
             ELSE versions[CHOOSE i \in found : \A k \in found : i <= k].version

\* install.py: get_debian_package_version(distro_series, pkg).
get_debian_package_version(distro_series, pkg, response) ==
    LET api_pkg  == pkg
        pkg_url  == DEBIAN_PKG_URL \o api_pkg \o "/"
        pkg_json == get_data(pkg_url, "application/json", response)
    IN  IF pkg_json.out.kind = "raise" THEN pkg_json
        ELSE LET pkg_data == debian_search(distro_series, pkg_json.out.val)
             IN  Result(IF pkg_data = <<>> THEN Raise("AttributeError")
                        ELSE Return(Str(pkg_data)),
                        pkg_json.net)

\* re.search('[0-9]{1,}[\.]{1}[0-9]{1,}(?=[^ ]{0,9}-minimal)', rocky_release):
\* the match, or <<>>. The match starts at the leftmost digit from which the
\* pattern can match and takes as many digits after the dot as the look-ahead
\* allows.
rocky_api_tag(rocky_release) ==
    LET n == Len(rocky_release)
        IsDigit(i) == i \in 1..n /\ rocky_release[i] \in Digits
        \* the position of the dot that ends the digits starting at i
        Dot(i) == i + Len(Run(SubSeq(rocky_release, i, n), Digits))
        Ahead(k) ==
            \E m \in 0..9 :
                /\ k + m + 8 <= n
                /\ \A x \in (k + 1)..(k + m) : rocky_release[x] # " "
                /\ SubSeq(rocky_release, k + m + 1, k + m + 8) = <<"-", "m", "i", "n", "i", "m", "a", "l">>
        Ends(i) ==
            IF Dot(i) <= n /\ rocky_release[Dot(i)] = "."
            THEN { k \in (Dot(i) + 1)..n :
                     /\ \A x \in (Dot(i) + 1)..k : IsDigit(x)
                     /\ Ahead(k) }
            ELSE {}
        starts == { i \in 1..n : IsDigit(i) /\ Ends(i) # {} }
    IN  IF starts = {} THEN <<>>
        ELSE LET i == CHOOSE i \in starts : \A x \in starts : i <= x
                 k == CHOOSE k \in Ends(i) : \A x \in Ends(i) : x <= k
             IN  SubSeq(rocky_release, i, k)

\* A directory listing of download.rockylinux.org: one line per file, each
\*   <a href="STEM.src.rpm">STEM.src.rpm</a>   date   size
\* given by the characters of each STEM in order. Any other page has no links.
RockyBody(links) == [json |-> "invalid", links |-> links]

\* re.search of the pattern built from api_pkg in the listing's lines joined by
\* spaces: what follows "api_pkg-" in the first STEM that starts with it and
\* has something after it, or <<>>.
rocky_search(api_pkg, pkg_data) ==
    LET head  == api_pkg \o <<"-">>
        found == { i \in DOMAIN pkg_data.links :
                     /\ Len(pkg_data.links[i]) > Len(head)
                     /\ SubSeq(pkg_data.links[i], 1, Len(head)) = head }
    IN  IF found = {} THEN <<>>
        ELSE LET stem == pkg_data.links[CHOOSE i \in found : \A k \in found : i <= k]
             IN  SubSeq(stem, Len(head) + 1, Len(stem))

\* install.py: get_rocky_package_version(rocky_release, pkg), pkg as its
\* characters. api_pkg[0] raises IndexError for the empty name; splitlines of
\* the None that get_data returns for a failed request raises AttributeError.
get_rocky_package_version(rocky_release, pkg, response) ==
    LET api_tag == rocky_api_tag(rocky_release)
    IN  IF api_tag = <<>> THEN Result(Raise("AttributeError"), <<>>)
        ELSE IF pkg = <<>> THEN Result(Raise("IndexError"), <<>>)
        ELSE
        LET api_pkg == pkg
            api_dir == api_pkg[1]
            pkg_url == ROCKY_PKG_URL[1] \o Str(api_tag) \o ROCKY_PKG_URL[2] \o api_dir
            pkg_data == get_data(pkg_url, None, response)
        IN  IF pkg_data.out.kind = "raise" THEN pkg_data
            ELSE IF pkg_data.out.val.json = "None"
            THEN Result(Raise("AttributeError"), pkg_data.net)
            ELSE LET pkg_version_string == rocky_search(api_pkg, pkg_data.out.val)
                 IN  Result(IF pkg_version_string = <<>> THEN Raise("AttributeError")
                            ELSE Return(Str(pkg_version_string)),
                            pkg_data.net)

\* re.search('(?<=\[)\{.*\}(?=\])', '{0}'.format(pkg_json)): the objects between
\* the first "[{" and the last "}]" of the text, which for a body of
\* api.launchpad.net are the elements of its member entries.
ubuntu_search(pkg_json) ==
    CASE pkg_json.json = "array" -> pkg_json.value
      [] has_attribute(pkg_json, "entries") -> pkg_json.value.entries
      [] OTHER -> <<>>

\* install.py: get_ubuntu_package_version(distro_series, pkg). One object is
\* JSON; two objects separated by a comma are not (JSONDecodeError).
get_ubuntu_package_version(distro_series, pkg, response) ==
    IF distro_series = None THEN Result(Return(None), <<>>)
    ELSE
    LET api_pkg  == pkg
        pkg_url  == ubuntu_pkg_url(distro_series, api_pkg)
        pkg_json == get_data(pkg_url, "application/json", response)
    IN  IF pkg_json.out.kind = "raise" THEN pkg_json
        ELSE LET pkg_data == ubuntu_search(pkg_json.out.val)
             IN  Result(
                   IF pkg_data = <<>> THEN Raise("AttributeError")
                   ELSE IF Len(pkg_data) > 1 THEN Raise("JSONDecodeError")
                   ELSE IF ~has_attribute(pkg_data[1], "source_package_version")
                   THEN Raise("AttributeError")
                   ELSE Return(pkg_data[1].value.source_package_version),
                   pkg_json.net)

(***************************************************************************)
(* build.py: get_live_os_string.                                           *)
(***************************************************************************)

\* The distribution names get_live_os_string has a case for.
LiveOsNames == {"alpine", "centos", "debian", "fedora", "ubuntu"}

live_os_url(dist) ==
    CASE dist = "alpine" -> "https://github.com/alpinelinux/aports/tags"
      [] dist = "centos" -> "https://mirrors.mit.edu/centos/"
      [] dist = "debian" -> "https://mirrors.mit.edu/debian/dists/"
      [] dist = "fedora" -> "https://mirrors.mit.edu/fedora/linux/releases/"
      [] dist = "ubuntu" -> "https://mirrors.mit.edu/ubuntu-releases/"

\* build.py: get_live_os_string(dist). A name without a case returns None
\* before any request is made. HTTPError and URLError are printed; the matches
\* found in a body are printed; in each case the function ends without a return
\* statement and returns None. An error of decode is not caught.
get_live_os_string(dist, response) ==
    IF dist \notin LiveOsNames THEN Result(Return(None), <<>>)
    ELSE LET req == Request(live_os_url(dist), <<>>)
         IN  Result(IF response.status = "UnicodeDecodeError"
                    THEN Raise("UnicodeDecodeError")
                    ELSE Return(None),
                    << Exchange(req, response) >>)

(***************************************************************************)
(* State and actions: one action per function a caller can invoke.         *)
(***************************************************************************)

\* What dependencies.json may hold when a script starts.
DependenciesFiles ==
    { [exists |-> FALSE, content |-> ""],
      [exists |-> TRUE,  content |-> "{\"0.3.0\": {\"distributions\": {\"alpine\": \"3.15.6\"}}}"] }

\* Names asked of the dispatch lookups: the ones they know, two that only the
\* table or the package list knows, and one nobody knows.
DepInputs == DispatchNames \cup {"git", "gawk", "zlib"}

\* Tags given to get_alpine_pkg_string and get_alpine_pkgs: the two Alpine
\* versions, a release tag (what install.py passes) and an unknown version.
PkgTagInputs == {"3.15.6", "3.16.2", "0.3.0", "0.4.0-beta.6", "3.17.0"}

PkgInputs == {"perl", "gawk", "alpine-sdk"}

\* Package lists given to get_alpine_pkgs.
PkgListInputs ==
    { <<>>, <<"perl">>, <<"gawk", "perl">>, <<"perl", "gawk">>, alpine_package_names }

OsNameInputs == {"alpine", "debian"}

(***************************************************************************)
(* Inputs of the registry functions.                                       *)
(***************************************************************************)

\* The responses in which no body arrives.
FailedResponses ==
    { [status |-> s, body |-> NoData] : s \in {"URLError", "HTTPError", "UnicodeDecodeError"} }

Ok(body) == [status |-> "ok", body |-> body]

\* Bodies of the releases registry: two releases, none, an error object, a
\* release without tag_name, a page that is not JSON, and null.
PerseusResponses ==
    FailedResponses \cup
    { Ok(JsonArray(<< JsonObject([tag_name |-> "v0.4.0-beta.7"]),
                      JsonObject([tag_name |-> "v0.3.5"]) >>)),
      Ok(JsonArray(<<>>)),
      Ok(JsonObject([message |-> "API rate limit exceeded"])),
      Ok(JsonArray(<< JsonObject([name |-> "v0.3.5"]) >>)),
      Ok(JsonInvalid),
      Ok(JsonNull) }

\* Descriptions of Docker Hub repositories, as their tag lists.
AlpineDescription ==
    << << <<"2", "0", "2", "2", "0", "7", "1", "5">>, <<"e", "d", "g", "e">> >>,
       << <<"3", ".", "1", "6", ".", "2">>, <<"3", ".", "1", "6">>, <<"3">>, <<"l", "a", "t", "e", "s", "t">> >>,
       << <<"3", ".", "1", "5", ".", "6">>, <<"3", ".", "1", "5">> >> >>

DebianDescription ==
    << << <<"b", "o", "o", "k", "w", "o", "r", "m", "-", "s", "l", "i", "m">>, <<"b", "o", "o", "k", "w", "o", "r", "m", "-", "2", "0", "2", "2", "0", "8", "2", "2", "-", "s", "l", "i", "m">> >>,
       << <<"b", "u", "l", "l", "s", "e", "y", "e", "-", "s", "l", "i", "m">>, <<"b", "u", "l", "l", "s", "e", "y", "e", "-", "2", "0", "2", "2", "0", "8", "2", "2", "-", "s", "l", "i", "m">>, <<"1", "1", ".", "4", "-", "s", "l", "i", "m">>, <<"1", "1", "-", "s", "l", "i", "m">> >> >>

FedoraDescription ==
    << << <<"3", "7">>, <<"r", "a", "w", "h", "i", "d", "e">> >>, << <<"3", "6">>, <<"l", "a", "t", "e", "s", "t">> >>, << <<"3", "5">> >> >>

RockyDescription ==
    << << <<"9", ".", "0", ".", "2", "0", "2", "2", "0", "7", "2", "0", "-", "m", "i", "n", "i", "m", "a", "l">>, <<"9", ".", "0", "-", "m", "i", "n", "i", "m", "a", "l">>, <<"9", "-", "m", "i", "n", "i", "m", "a", "l">> >> >>

UbuntuDescription ==
    << << <<"2", "0", ".", "0", "4">>, <<"f", "o", "c", "a", "l", "-", "2", "0", "2", "2", "0", "8", "0", "1">>, <<"f", "o", "c", "a", "l">> >>,
       << <<"2", "2", ".", "0", "4">>, <<"j", "a", "m", "m", "y", "-", "2", "0", "2", "2", "0", "8", "1", "5">>, <<"j", "a", "m", "m", "y">>, <<"l", "a", "t", "e", "s", "t">> >> >>

HubResponses ==
    FailedResponses \cup
    { Ok(JsonObject([name |-> "repository", full_description |-> d])) :
          d \in { AlpineDescription, DebianDescription, FedoraDescription,
                  RockyDescription, UbuntuDescription, <<>> } }
    \cup { Ok(JsonObject([message |-> "object not found"])), Ok(JsonInvalid), Ok(JsonNull) }

\* The five URLs install.py defines, the repository named rocky, one outside
\* the five, one without a name and one that is no repository URL.
HubUrls ==
    { ALPINE_URL, DEBIAN_URL, FEDORA_URL, ROCKY_URL, UBUNTU_URL,
      RepositoryUrl(HUB_URL, <<"r", "o", "c", "k", "y">>),
      RepositoryUrl(HUB_URL, <<"c", "e", "n", "t", "o", "s">>),
      RepositoryUrl(HUB_URL, <<>>),
      RepositoryUrl("https://example.org/", <<"a", "l", "p", "i", "n", "e">>) }

AlpineReleaseInputs == { <<"3", ".", "1", "6", ".", "2">>, <<"3", ".", "1", "5">>, <<"e", "d", "g", "e">>, <<"N", "o", "n", "e">> }

DebianResponses ==
    FailedResponses \cup
    { Ok(DebianBody(TRUE,
            << [suites |-> <<"sid", "bookworm">>, version |-> <<"7", ".", "8", "5", ".", "0", "-", "1">>],
               [suites |-> <<"bullseye">>, version |-> <<"7", ".", "7", "4", ".", "0", "-", "1", ".", "3", "+", "d", "e", "b", "1", "1", "u", "2">>],
               [suites |-> <<"buster">>, version |-> <<"7", ".", "6", "4", ".", "0", "-", "4", "+", "d", "e", "b", "1", "0", "u", "2">>] >>)),
      Ok(DebianBody(TRUE,
            << [suites |-> <<"bullseye">>, version |-> <<"1", ":", "7", ".", "7", "4", "~", "1">>],
               [suites |-> <<"bullseye">>, version |-> <<"7", ".", "0">>] >>)),
      Ok(DebianBody(TRUE,
            << [suites |-> <<"sid", "bookworm">>, version |-> <<"7", ".", "8", "5", ".", "0", "-", "1">>] >>)),
      Ok(DebianBody(FALSE,
            << [suites |-> <<"bullseye">>, version |-> <<"7", ".", "7", "4", ".", "0", "-", "1", ".", "3", "+", "d", "e", "b", "1", "1", "u", "2">>] >>)),
      Ok(NotDebianBody) }

DistroSeriesInputs == {"bullseye", "jammy", None}

RockyReleaseInputs ==
    { <<"9", ".", "0", "-", "m", "i", "n", "i", "m", "a", "l">>, <<"9", ".", "0", ".", "2", "0", "2", "2", "0", "7", "2", "0", "-", "m", "i", "n", "i", "m", "a", "l">>, <<"9", "-", "m", "i", "n", "i", "m", "a", "l">>, <<"9", ".", "0">> }

RockyPkgInputs == { <<"c", "u", "r", "l">>, <<"c", "h", "r", "o", "n", "y">>, <<>> }

RockyResponses ==
    FailedResponses \cup
    { Ok(RockyBody(<< <<"c", "h", "r", "o", "n", "y", "-", "4", ".", "1", "-", "3", ".", "e", "l", "9">>, <<"c", "u", "r", "l", "-", "7", ".", "7", "6", ".", "1", "-", "1", "4", ".", "e", "l", "9", "_", "0", ".", "5">>, <<"c", "u", "p", "s", "-", "2", ".", "3", ".", "3", "o", "p", "2", "-", "1", "3", ".", "e", "l", "9">> >>)),
      Ok(RockyBody(<< <<"c", "u", "r", "l", "-", "m", "i", "n", "i", "m", "a", "l", "-", "7", ".", "7", "6", ".", "1", "-", "1", "4", ".", "e", "l", "9">>, <<"c", "u", "r", "l", "-", "7", ".", "7", "6", ".", "1", "-", "1", "4", ".", "e", "l", "9", "_", "0", ".", "5">> >>)),
      Ok(RockyBody(<< <<"c", "u", "p", "s", "-", "2", ".", "3", ".", "3", "o", "p", "2", "-", "1", "3", ".", "e", "l", "9">> >>)),
      Ok(RockyBody(<<>>)) }

UbuntuEntry(version) ==
    JsonObject([source_package_name |-> "curl", source_package_version |-> version])

UbuntuResponses ==
    FailedResponses \cup
    { Ok(JsonObject([total_size |-> n, entries |-> e])) :
          <<n, e>> \in { <<"1", << UbuntuEntry("7.81.0-1ubuntu1.4") >> >>,
                         <<"2", << UbuntuEntry("7.81.0-1ubuntu1.4"),
                                   UbuntuEntry("7.81.0-1ubuntu1.3") >> >>,
                         <<"0", <<>> >>,
                         <<"1", << JsonObject([source_package_name |-> "curl"]) >> >> } }
    \cup { Ok(JsonInvalid) }

LiveOsInputs == LiveOsNames \cup {"rocky", "rockylinux", None}

\* The responses of the mirrors: get_live_os_string only prints what it finds.
LiveOsResponses == FailedResponses \cup { Ok(JsonInvalid) }

DataUrlInputs == { PERSEUS_URL, UrlString(ALPINE_URL) }

ContentTypeInputs == { None, "application/json", "" }

DataResponses == FailedResponses \cup { Ok(JsonInvalid), Ok(JsonArray(<<>>)) }

(***************************************************************************)
(* The manifest stage generator (spec section 4.4).  src/ holds no code    *)
(* for it: generate_templates of install.py only prepares directories.     *)
(***************************************************************************)

\* A pinned package with the kind of its source.
Dependency(name, sourceKind) == [name |-> name, sourceKind |-> sourceKind]

\* A base reference: an external image or a stage of the same manifest.
ImageRef(name) == [kind |-> "image", name |-> name]
StageRef(name) == [kind |-> "stage", name |-> name]

\* Instruction records: copy names the stage it copies from.
CopyFrom(stage) == [op |-> "copy", arg |-> stage]
RunInstall == [op |-> "run", arg |-> "install"]

BuildStage(name, baseRef, instructions) ==
    [name |-> name, baseRef |-> baseRef, instructions |-> instructions]

\* The dependencies of kind binary-release, in the order of the set.
binary_tools(dependencySet) ==
    LET IsBinary(d) == d.sourceKind = "binary-release"
    IN  SelectSeq(dependencySet, IsBinary)

\* Mutant of generate: the assembly stage is declared before the stages of the
\* binary tools and the runtime stage is based on base.
generate_assembly_early(dependencySet, distribution) ==
    LET tools     == binary_tools(dependencySet)
        base      == BuildStage("base", ImageRef(distribution), << RunInstall >>)
        tool(i)   == BuildStage(tools[i].name, StageRef("base"), <<>>)
        framework == BuildStage("framework", StageRef("base"), <<>>)
        assembly  == BuildStage("assembly", StageRef("framework"),
                                [i \in 1..Len(tools) |-> CopyFrom(tools[i].name)])
        runtime   == BuildStage("runtime", StageRef("base"), << CopyFrom("assembly") >>)
    IN  << base, framework, assembly >> \o [i \in 1..Len(tools) |-> tool(i)] \o << runtime >>

\* generate(dependencySet, distribution): base, one stage per binary-release
\* dependency, framework, assembly and runtime, in this order.
generate(dependencySet, distribution) ==
    LET tools     == binary_tools(dependencySet)
        base      == BuildStage("base", ImageRef(distribution), << RunInstall >>)
        tool(i)   == BuildStage(tools[i].name, StageRef("base"), <<>>)
        framework == BuildStage("framework", StageRef("base"), <<>>)
        assembly  == BuildStage("assembly", StageRef("framework"),
                                [i \in 1..Len(tools) |-> CopyFrom(tools[i].name)])
        runtime   == BuildStage("runtime", ImageRef(distribution), << CopyFrom("assembly") >>)
    IN  << base >> \o [i \in 1..Len(tools) |-> tool(i)] \o << framework, assembly, runtime >>

\* Dependency sets given to generate: without a binary release, with one and
\* with three among packages and toolchains.
DependencySetInputs ==
    { << Dependency("perl", "distro-package"), Dependency("rust", "language-toolchain") >>,
      << Dependency("binaryen", "binary-release"), Dependency("perl", "distro-package") >>,
      << Dependency("alpine-sdk", "distro-package"), Dependency("binaryen", "binary-release"),
         Dependency("esbuild", "binary-release"), Dependency("rust", "language-toolchain"),
         Dependency("wasm-pack", "binary-release") >> }

(***************************************************************************)
(* patch_framework.py: patch.                                              *)
(***************************************************************************)

\* The characters of [0-9\.].
ReleaseChars == Digits \cup {"."}

\* re.search('([0-9\.]{5,})$', semver): the match, or <<>> when there is
\* none. "$" matches at the end of the string and just before a newline that
\* ends it, so the match is the whole run of digits and dots that ends there,
\* if the run has five characters or more.
sv_search(semver) ==
    LET n    == Len(semver)
        last == IF n > 0 /\ semver[n] = "\n" THEN n - 1 ELSE n
        runs == { i \in 1..last : \A k \in i..last : semver[k] \in ReleaseChars }
    IN  IF runs = {} THEN <<>>
        ELSE LET first == CHOOSE i \in runs : \A k \in runs : i <= k
             IN  IF last - first + 1 >= 5 THEN SubSeq(semver, first, last) ELSE <<>>

\* patch_framework.py: patch(semver). group(0) of no match raises
\* AttributeError; every branch on release is "pass", so the function returns
\* None.
patch(semver) ==
    LET sv_match == sv_search(semver)
    IN  IF sv_match = <<>> THEN Raise("AttributeError")
        ELSE LET release == Str(sv_match)
             IN  CASE release = "0.3.0" -> Return(None)
                   [] release = "0.3.1" -> Return(None)
                   [] release = "0.3.2" -> Return(None)
                   [] OTHER -> Return(None)

\* The tags given to patch: the tags of the lookups and one with a leading v.
PatchInputs == Tags \cup { <<"v", "0", ".", "3", ".", "0">>, <<"0", ".", "3">>, <<"1", "0", ".", "0", ".", "0", ".">> }

\* The callers that may have a call of get_alpine_pkgs in progress.
Callers == {"first", "second"}

\* The locals of one call of get_alpine_pkgs: its arguments, the list output,
\* the number of packages the loop has taken from pkg_name_arr, and where the
\* call is: "loop" (lines 414-417), "done" with its outcome, or no call.
Frame(tag, pkg_name_arr, output, taken, pc, out) ==
    [tag |-> tag, pkg_name_arr |-> pkg_name_arr, output |-> output,
     taken |-> taken, pc |-> pc, kind |-> out.kind, val |-> out.val]

NoFrame == Frame("", <<>>, <<>>, 0, "none", [kind |-> "none", val |-> None])

NoCall == [fn |-> "none", args |-> <<>>, kind |-> "none", val |-> None, net |-> <<>>]

\* The record of a call: its function, arguments, outcome and the responses it
\* received from the network, one per request made.
Call(fn, args, out, net) ==
    [fn |-> fn, args |-> args, kind |-> out.kind, val |-> out.val, net |-> net]

\* this_call and prev_call are the observer's window on the calls made. A call
\* is recorded when the window is empty or holds the same function with the same
\* arguments, so the window holds one call or a call and its repetition; Forget
\* empties it. The program's own state (the file and the table) persists.
Step(fn, args, out, net) ==
    /\ this_call.fn = NoCall.fn \/ (this_call.fn = fn /\ this_call.args = args)
    /\ prev_call' = this_call
    /\ this_call' = Call(fn, args, out, net)
    /\ UNCHANGED frames

\* The global name perseus_deps of a script: no value before the assignment of
\* the list has run, the list afterwards.
NotBound == [bound |-> FALSE, value |-> <<>>]

BoundTo(value) == [bound |-> TRUE, value |-> value]

\* The state once each script has been loaded. install.py: the resolution of
\* lines 654-676 raises TypeError (get_alpine_pkgs("0.3.0", ...) joins None),
\* which ends the load before line 713 assigns perseus_deps; the functions
\* defined above line 654 are bound. generate.py: the load completes and
\* line 327 has assigned the list.
Init ==
    /\ dependencies_json \in DependenciesFiles
    /\ perseus_deps = [install |-> NotBound, generate |-> BoundTo(perseus_deps_generate)]
    /\ prev_call = NoCall
    /\ this_call = NoCall
    /\ frames = [p \in Callers |-> NoFrame]

GetDepVersion ==
    \E tag \in Tags, dep \in DepInputs :
        /\ Step("get_dep_version", <<Str(tag), dep>>,
                     Return(get_dep_version(Str(tag), dep)), <<>>)
        /\ UNCHANGED <<dependencies_json, perseus_deps>>

GetGranularDependencyVersion ==
    \E tag \in Tags, dep \in DepInputs :
        /\ Step("get_granular_dependency_version", <<Str(tag), dep>>,
                     Return(get_granular_dependency_version(Str(tag), dep)), <<>>)
        /\ UNCHANGED <<dependencies_json, perseus_deps>>

GetAlpineVersion ==
    \E tag \in Tags :
        /\ Step("get_alpine_version", <<Str(tag)>>,
                     Return(get_alpine_version(tag)), <<>>)
        /\ UNCHANGED <<dependencies_json, perseus_deps>>

GetAlpineVersionGenerate ==
    \E tag \in Tags :
        /\ Step("generate.get_alpine_version", <<Str(tag)>>,
                     Return(get_alpine_version_generate(tag)), <<>>)
        /\ UNCHANGED <<dependencies_json, perseus_deps>>

GetAlpinePkgString ==
    \E tag \in PkgTagInputs, pkg \in PkgInputs :
        /\ Step("get_alpine_pkg_string", <<tag, pkg>>,
                     get_alpine_pkg_string(tag, pkg), <<>>)
        /\ UNCHANGED <<dependencies_json, perseus_deps>>

GetAlpinePkgStringGenerate ==
    \E tag \in PkgTagInputs, pkg \in PkgInputs, response \in Responses :
        /\ Step("generate.get_alpine_pkg_string", <<tag, pkg>>,
                     get_alpine_pkg_string_generate(tag, pkg, response),
                     IF tag \in {"3.15.6", "3.16.2"} THEN <<response>> ELSE <<>>)
        /\ UNCHANGED <<dependencies_json, perseus_deps>>

GetAlpinePkgs ==
    \E tag \in PkgTagInputs, pkg_name_arr \in PkgListInputs :
        /\ Step("get_alpine_pkgs", <<tag, pkg_name_arr>>,
                     get_alpine_pkgs(tag, pkg_name_arr), <<>>)
        /\ UNCHANGED <<dependencies_json, perseus_deps>>

GetOsVersion ==
    \E tag \in Tags, os_name \in OsNameInputs :
        LET r == get_os_version(Str(tag), os_name, dependencies_json)
        IN  /\ Step("get_os_version", <<Str(tag), os_name>>, r.out, <<>>)
            /\ dependencies_json' = r.file
            /\ UNCHANGED perseus_deps

\* install.py lines 654-1117 run with tag assigned to perseus_version: the
\* assignment of perseus_deps (line 713) runs only when the resolution above it
\* has not raised.
ModuleLevelInstall ==
    \E tag \in Tags :
        LET out == module_level_install(tag)
        IN  /\ Step("install.py", <<Str(tag)>>, out, <<>>)
            /\ perseus_deps' = IF out.kind = "return"
                               THEN [perseus_deps EXCEPT !.install = BoundTo(perseus_deps_install)]
                               ELSE perseus_deps
            /\ UNCHANGED dependencies_json

ModuleLevelGenerate ==
    \E tag \in Tags :
        /\ Step("generate.py", <<Str(tag)>>, module_level_generate(tag), <<>>)
        /\ UNCHANGED <<dependencies_json, perseus_deps>>

\* The outcome recorded for get_data: the None it returns for a failed request
\* is recorded as None like every other None.
recorded(out) ==
    IF out.kind = "return" /\ out.val.json = "None" THEN Return(None) ELSE out

GetData ==
    \E data_url \in DataUrlInputs, content_type \in ContentTypeInputs,
       response \in DataResponses :
        LET r == get_data(data_url, content_type, response)
        IN  /\ Step("get_data", <<data_url, content_type>>, recorded(r.out), r.net)
            /\ UNCHANGED <<dependencies_json, perseus_deps>>

GetPerseusTags ==
    \E response \in PerseusResponses :
        LET r == get_perseus_tags(response)
        IN  /\ Step("get_perseus_tags", <<>>, r.out, r.net)
            /\ UNCHANGED <<dependencies_json, perseus_deps>>

GetLatestDistribution ==
    \E linux_url \in HubUrls, response \in HubResponses :
        LET r == get_latest_distribution(linux_url, response)
        IN  /\ Step("get_latest_distribution", <<UrlString(linux_url)>>, r.out, r.net)
            /\ UNCHANGED <<dependencies_json, perseus_deps>>

GetAlpinePackageVersion ==
    \E alpine_release \in AlpineReleaseInputs, pkg \in PkgInputs :
        LET r == get_alpine_package_version(alpine_release, pkg)
        IN  /\ Step("get_alpine_package_version", <<Str(alpine_release), pkg>>, r.out, r.net)
            /\ UNCHANGED <<dependencies_json, perseus_deps>>

GetDebianPackageVersion ==
    \E distro_series \in DistroSeriesInputs \ {None}, response \in DebianResponses :
        LET r == get_debian_package_version(distro_series, "curl", response)
        IN  /\ Step("get_debian_package_version", <<distro_series, "curl">>, r.out, r.net)
            /\ UNCHANGED <<dependencies_json, perseus_deps>>

GetRockyPackageVersion ==
    \E rocky_release \in RockyReleaseInputs, pkg \in RockyPkgInputs,
       response \in RockyResponses :
        LET r == get_rocky_package_version(rocky_release, pkg, response)
        IN  /\ Step("get_rocky_package_version", <<Str(rocky_release), Str(pkg)>>,
                    r.out, r.net)
            /\ UNCHANGED <<dependencies_json, perseus_deps>>

GetUbuntuPackageVersion ==
    \E distro_series \in DistroSeriesInputs, response \in UbuntuResponses :
        LET r == get_ubuntu_package_version(distro_series, "curl", response)
        IN  /\ Step("get_ubuntu_package_version", <<distro_series, "curl">>, r.out, r.net)
            /\ UNCHANGED <<dependencies_json, perseus_deps>>

GetLiveOsString ==
    \E dist \in LiveOsInputs, response \in LiveOsResponses :
        LET r == get_live_os_string(dist, response)
        IN  /\ Step("get_live_os_string", <<dist>>, r.out, r.net)
            /\ UNCHANGED <<dependencies_json, perseus_deps>>

GenerateManifest ==
    \E dependencySet \in DependencySetInputs, distribution \in PatternNames :
        /\ Step("generate", <<dependencySet, distribution>>,
                Return(generate(dependencySet, distribution)), <<>>)
        /\ UNCHANGED <<dependencies_json, perseus_deps>>

Patch ==
    \E semver \in PatchInputs :
        /\ Step("patch", <<Str(semver)>>, patch(semver), <<>>)
        /\ UNCHANGED <<dependencies_json, perseus_deps>>

\* The observer's window is emptied; nothing of the program changes.
Forget ==
    /\ this_call.fn # NoCall.fn
    /\ this_call' = NoCall
    /\ prev_call' = NoCall
    /\ UNCHANGED <<dependencies_json, frames, perseus_deps>>

Next ==
    \/ GetDepVersion
    \/ GetGranularDependencyVersion
    \/ GetAlpineVersion
    \/ GetAlpineVersionGenerate
    \/ GetAlpinePkgString
    \/ GetAlpinePkgStringGenerate
    \/ GetAlpinePkgs
    \/ GetOsVersion
    \/ ModuleLevelInstall
    \/ ModuleLevelGenerate
    \/ GetData
    \/ GetPerseusTags
    \/ GetLatestDistribution
    \/ GetAlpinePackageVersion
    \/ GetDebianPackageVersion
    \/ GetRockyPackageVersion
    \/ GetUbuntuPackageVersion
    \/ GetLiveOsString
    \/ GenerateManifest
    \/ Patch
    \/ Forget

Spec == Init /\ [][Next]_vars

(***************************************************************************)
(* get_alpine_pkgs, one statement at a time.                               *)
(*                                                                         *)
(* Two callers may each have a call of get_alpine_pkgs in progress, their  *)
(* statements interleaved in any order.  A call owns a frame with its      *)
(* locals tag, pkg_name_arr and output; the function reads and writes      *)
(* nothing else.                                                           *)
(***************************************************************************)

\* The arguments the interleaved calls are made with.
FrameTagInputs == {"3.15.6", "0.3.0"}

FramePkgListInputs == { <<>>, <<"perl">>, <<"gawk", "perl">> }

\* Mutant of list_append: output is one list for all calls, so the value shows
\* in the list of every call that is in its loop.
list_append_shared(fs, p, value) ==
    [q \in Callers |->
        IF q = p THEN [fs[q] EXCEPT !.output = Append(@, value), !.taken = @ + 1]
        ELSE IF fs[q].pc = "loop" THEN [fs[q] EXCEPT !.output = Append(@, value)]
        ELSE fs[q]]

\* output.append(value) in the frame of caller p: the list of that frame
\* grows by one element, every other frame is left as it is.
list_append(fs, p, value) ==
    [fs EXCEPT ![p].output = Append(@, value), ![p].taken = @ + 1]

\* Line 413: the call binds its parameters and a new empty list.
CallGetAlpinePkgs ==
    \E p \in Callers, tag \in FrameTagInputs, pkg_name_arr \in FramePkgListInputs :
        /\ frames[p].pc = "none"
        /\ frames' = [frames EXCEPT ![p] =
                         Frame(tag, pkg_name_arr, <<>>, 0, "loop", [kind |-> "none", val |-> None])]
        /\ UNCHANGED <<dependencies_json, perseus_deps, prev_call, this_call>>

\* Lines 414-417: one turn of the loop.  The next package is taken, its
\* string computed and appended; an exception of get_alpine_pkg_string ends
\* the call.
AppendPkgString ==
    \E p \in Callers :
        LET f == frames[p]
            s == get_alpine_pkg_string(f.tag, f.pkg_name_arr[f.taken + 1])
        IN  /\ f.pc = "loop"
            /\ f.taken < Len(f.pkg_name_arr)
            /\ frames' = IF s.kind = "raise"
                         THEN [frames EXCEPT ![p].pc = "done", ![p].kind = s.kind, ![p].val = s.val]
                         ELSE list_append(frames, p, s.val)
            /\ UNCHANGED <<dependencies_json, perseus_deps, prev_call, this_call>>

\* Line 418: the loop is over and the list is joined.
JoinOutput ==
    \E p \in Callers :
        LET f   == frames[p]
            out == IF \E i \in 1..Len(f.output) : f.output[i] = None
                   THEN Raise("TypeError")
                   ELSE Return(join(" ", f.output))
        IN  /\ f.pc = "loop"
            /\ f.taken >= Len(f.pkg_name_arr)
            /\ frames' = [frames EXCEPT ![p].pc = "done", ![p].kind = out.kind, ![p].val = out.val]
            /\ UNCHANGED <<dependencies_json, perseus_deps, prev_call, this_call>>

\* The caller has the outcome and the frame is gone.
LeaveGetAlpinePkgs ==
    \E p \in Callers :
        /\ frames[p].pc = "done"
        /\ frames' = [frames EXCEPT ![p] = NoFrame]
        /\ UNCHANGED <<dependencies_json, perseus_deps, prev_call, this_call>>

NextInterleaved ==
    \/ CallGetAlpinePkgs
    \/ AppendPkgString
    \/ JoinOutput
    \/ LeaveGetAlpinePkgs

SpecInterleaved == Init /\ [][NextInterleaved]_vars

(***************************************************************************)
(* Reading the table.                                                      *)
(***************************************************************************)

Scripts == {"install", "generate"}

\* The list each script's source assigns to perseus_deps (install.py lines
\* 713-1117, generate.py lines 327-731), whether or not a load has reached the
\* assignment.
perseus_deps_source == [install |-> perseus_deps_install, generate |-> perseus_deps_generate]

\* Where a script has bound perseus_deps, it holds the list of its source.
BoundTablesAreSource ==
    \A s \in {"install", "generate"} :
        perseus_deps[s].bound => perseus_deps[s].value = perseus_deps_source[s]

\* The releases of a table, as a set.
Releases(table) == { table[i] : i \in DOMAIN table }

\* The dependency names of one release entry.
ReleaseNames(r) == { r.os.dep[k].name : k \in DOMAIN r.os.dep }

\* The versions a table records for dependency name under release tag.
TableVersions(table, tag, name) ==
    UNION { { r.os.dep[k].version : k \in { k \in DOMAIN r.os.dep : r.os.dep[k].name = name } }
            : r \in { r \in Releases(table) : r.tag = tag } }

\* The tags of the releases a table lists.
TableTags(table) == { r.tag : r \in Releases(table) }

\* The tag of this_call as characters (lookups are called with tags of Tags).
TagChars(s) == CHOOSE t \in Tags : Str(t) = s

\* A call of one of the two dispatch lookups.
IsDispatchCall(c) == c.fn \in {"get_dep_version", "get_granular_dependency_version"}

\* A call of one of the two copies of get_alpine_version.
IsAlpineVersionCall(c) == c.fn \in {"get_alpine_version", "generate.get_alpine_version"}

(***************************************************************************)
(* C1. Every release entry of perseus_deps (distribution alpine), in both  *)
(* scripts, has exactly the same set of 22 dependency names: none extra,   *)
(* none missing.                                                           *)
(***************************************************************************)

RequiredNames ==
    { "alpine-sdk", "binaryen", "browser-sync", "concurrently", "esbuild", "git",
      "linux-headers", "make", "musl-dev", "node", "npm", "openrc", "openssl",
      "perl", "perseus-size-opt", "pkgconf", "rust", "rustup", "serve",
      "tailwindcss", "wasm-pack", "zlib-dev" }

\* C1: in every state, each release entry of each script's table is an alpine
\* entry whose dependency names are exactly the 22 required names.
C1_KeySetIsRequiredList ==
    /\ BoundTablesAreSource
    /\ Cardinality(RequiredNames) = 22
    /\ \A s \in Scripts : \A r \in Releases(perseus_deps_source[s]) :
           /\ r.os.name = "alpine"
           /\ ReleaseNames(r) = RequiredNames

\* The tables hold the 13 releases and a script has been loaded with one of them.
C1_Witness ==
    /\ \A s \in Scripts : TableTags(perseus_deps_source[s]) = { Str(t) : t \in ReleaseTags }
    /\ perseus_deps.generate.bound
    /\ this_call.fn = "generate.py"
    /\ this_call.args[1] \in TableTags(perseus_deps.generate.value)

(***************************************************************************)
(* C10. Within every release entry of perseus_deps the dependency names    *)
(* are pairwise distinct.                                                  *)
(***************************************************************************)

\* C10: in every state, no two positions of one release's dependency list hold
\* the same name.
C10_NamesPairwiseDistinct ==
    /\ BoundTablesAreSource
    /\ \A s \in Scripts : \A r \in Releases(perseus_deps_source[s]) :
           \A i, k \in DOMAIN r.os.dep :
               r.os.dep[i].name = r.os.dep[k].name => i = k

\* Both tables list 22 dependencies for release 0.4.0-beta.7 and a lookup of one
\* of them has been made.
C10_Witness ==
    /\ \A s \in Scripts : \E r \in Releases(perseus_deps_source[s]) :
           r.tag = "0.4.0-beta.7" /\ Len(r.os.dep) = 22
    /\ perseus_deps.generate.bound
    /\ IsDispatchCall(this_call)
    /\ this_call.args = <<"0.4.0-beta.7", "zlib">>

(***************************************************************************)
(* C2. Release "0.3.0" on alpine resolves rust to "1.57.0" and tailwindcss *)
(* to "3.0.7", in the table and through both dispatch lookups.             *)
(***************************************************************************)

\* C2: the table entries of release 0.3.0 record rust 1.57.0 and tailwindcss
\* 3.0.7, and every dispatch lookup of ("0.3.0", "rust") returns "1.57.0" and of
\* ("0.3.0", "tailwindcss") returns "3.0.7".
C2_Release030 ==
    /\ \A s \in Scripts :
           /\ TableVersions(perseus_deps_source[s], "0.3.0", "rust") = {"1.57.0"}
           /\ TableVersions(perseus_deps_source[s], "0.3.0", "tailwindcss") = {"3.0.7"}
    /\ IsDispatchCall(this_call) /\ this_call.args = <<"0.3.0", "rust">>
           => this_call.val = "1.57.0"
    /\ IsDispatchCall(this_call) /\ this_call.args = <<"0.3.0", "tailwindcss">>
           => this_call.val = "3.0.7"

\* get_dep_version("0.3.0", "tailwindcss") has been called.
C2_Witness ==
    /\ this_call.fn = "get_dep_version"
    /\ this_call.args = <<"0.3.0", "tailwindcss">>
    /\ this_call.kind = "return"

(***************************************************************************)
(* C3. Release "0.4.0-beta.6" on alpine resolves rust to "1.63.0" and      *)
(* serve to "14.0.1", in the table and through both dispatch lookups, by   *)
(* the full pre-release tag.                                               *)
(***************************************************************************)

\* C3: the table entries of release 0.4.0-beta.6 record rust 1.63.0 and serve
\* 14.0.1, and every dispatch lookup of ("0.4.0-beta.6", "rust") returns
\* "1.63.0" and of ("0.4.0-beta.6", "serve") returns "14.0.1".
C3_Release040Beta6 ==
    /\ \A s \in Scripts :
           /\ TableVersions(perseus_deps_source[s], "0.4.0-beta.6", "rust") = {"1.63.0"}
           /\ TableVersions(perseus_deps_source[s], "0.4.0-beta.6", "serve") = {"14.0.1"}
    /\ IsDispatchCall(this_call) /\ this_call.args = <<"0.4.0-beta.6", "rust">>
           => this_call.val = "1.63.0"
    /\ IsDispatchCall(this_call) /\ this_call.args = <<"0.4.0-beta.6", "serve">>
           => this_call.val = "14.0.1"

\* get_granular_dependency_version("0.4.0-beta.6", "serve") has been called.
C3_Witness ==
    /\ this_call.fn = "get_granular_dependency_version"
    /\ this_call.args = <<"0.4.0-beta.6", "serve">>
    /\ this_call.kind = "return"

(***************************************************************************)
(* C4. Resolution is all-or-nothing: the module-level resolution of        *)
(* install.py, and get_alpine_pkgs itself, either resolve every required   *)
(* dependency or fail as a whole.                                          *)
(***************************************************************************)

\* The tool versions install.py looks up with get_dep_version when it is loaded.
ModuleLevelVersions(g) ==
    { g.binaryen_version, g.bonnie_version, g.esbuild_version, g.node_version,
      g.npm_version, g.nvm_version, g.rustup_version, g.rust_version,
      g.wasm_pack_version }

\* C4: when the load of install.py completes, no tool version it looked up is
\* None and its package string is not None; and when get_alpine_pkgs returns,
\* get_alpine_pkg_string returned a string for every package of its list.
C4_AllOrNothing ==
    /\ this_call.fn = "install.py" /\ this_call.kind = "return"
           => /\ None \notin ModuleLevelVersions(this_call.val)
              /\ this_call.val.alpine_packages # None
              /\ get_alpine_pkgs(this_call.args[1], alpine_package_names).kind = "return"
    /\ this_call.fn = "get_alpine_pkgs" /\ this_call.kind = "return"
           => \A i \in DOMAIN this_call.args[2] :
                  LET s == get_alpine_pkg_string(this_call.args[1], this_call.args[2][i])
                  IN  s.kind = "return" /\ s.val # None

\* install.py was loaded for release 0.3.1, whose npm lookup returns None while
\* its other lookups return versions, and the load failed as a whole.
C4_Witness ==
    /\ this_call.fn = "install.py"
    /\ this_call.args = <<"0.3.1">>
    /\ this_call.kind = "raise"
    /\ get_dep_version("0.3.1", "npm") = None
    /\ get_dep_version("0.3.1", "rust") # None

(***************************************************************************)
(* C5. For a tag that names no known release, every lookup yields the      *)
(* failure value None.                                                     *)
(***************************************************************************)

\* C5: every call of get_dep_version, get_granular_dependency_version or
\* get_alpine_version with a tag that perseus_deps does not list returns None.
C5_UnknownTagFails ==
    /\ IsDispatchCall(this_call) \/ IsAlpineVersionCall(this_call)
    /\ this_call.args[1] \notin TableTags(perseus_deps_source.install)
    => this_call.kind = "return" /\ this_call.val = None

(***************************************************************************)
(* C6. A package whose live extraction fails during get_alpine_pkgs is     *)
(* taken from perseus_deps when the table has it, and the resolution still *)
(* returns a complete set.                                                 *)
(***************************************************************************)

\* C6: when get_alpine_pkgs is called for a listed release with packages that
\* the table all records for that release, and the extraction of one of them
\* yields no version, the call still returns.
C6_FallbackRecovers ==
    /\ this_call.fn = "get_alpine_pkgs"
    /\ this_call.args[1] \in TableTags(perseus_deps_source.install)
    /\ \A i \in DOMAIN this_call.args[2] :
           TableVersions(perseus_deps_source.install, this_call.args[1], this_call.args[2][i]) # {}
    /\ \E i \in DOMAIN this_call.args[2] :
           LET s == get_alpine_pkg_string(this_call.args[1], this_call.args[2][i])
           IN  s.kind = "raise" \/ s.val = None
    => this_call.kind = "return"

(***************************************************************************)
(* C7. No resolution call changes the static fallback data.                *)
(***************************************************************************)

\* C7: every step leaves the tables perseus_deps and the content of
\* dependencies.json as they were.
C7_StaticDataUnchanged ==
    [][perseus_deps' = perseus_deps /\ dependencies_json' = dependencies_json]_vars

\* get_os_version has opened an existing dependencies.json and failed;
\* perseus_deps is as the loads left it: not bound in install.py, the list of
\* the source in generate.py.
C7_Witness ==
    /\ this_call.fn = "get_os_version"
    /\ this_call.kind = "raise"
    /\ dependencies_json.exists
    /\ perseus_deps = [install |-> NotBound, generate |-> BoundTo(perseus_deps_generate)]

(***************************************************************************)
(* C9. A tag with a pre-release suffix resolves only as a listed tag.      *)
(***************************************************************************)

\* The tag is not three dot-separated numbers but starts with three of them.
HasSuffix(tag) ==
    /\ semver_match(tag) = <<>>
    /\ \E k \in 1..Len(tag) : semver_match(SubSeq(tag, 1, k)) # <<>>

\* C9: a dispatch lookup with a suffixed tag that perseus_deps does not list
\* returns None, whatever the dependency name.
C9_SuffixedTagExactOnly ==
    /\ IsDispatchCall(this_call)
    /\ HasSuffix(TagChars(this_call.args[1]))
    /\ this_call.args[1] \notin TableTags(perseus_deps_source.install)
    => this_call.val = None

(***************************************************************************)
(* C11. A registry client makes one request per call.                      *)
(***************************************************************************)

\* The tags get_alpine_pkg_string has a case for.
AlpineCaseTags == {"3.15.6", "3.16.2"}

\* The call is one of a registry client with an input it knows.
IsRegistryClientCall(c) ==
    \/ c.fn = "get_data"
    \/ c.fn = "get_live_os_string" /\ c.args[1] \in LiveOsNames
    \/ /\ c.fn \in {"get_alpine_pkg_string", "generate.get_alpine_pkg_string"}
       /\ c.args[1] \in AlpineCaseTags

\* C11: a call of get_data, of get_live_os_string for a distribution it knows
\* or of get_alpine_pkg_string for an Alpine tag it knows has made exactly one
\* request when it ends, whether it returned or raised.
C11_ExactlyOneRequest ==
    IsRegistryClientCall(this_call) => Len(this_call.net) = 1

(***************************************************************************)
(* C12. A failed transfer reaches the caller of every function built on    *)
(* get_data.                                                               *)
(***************************************************************************)

GetDataCallers ==
    {"get_perseus_tags", "get_latest_distribution", "get_debian_package_version",
     "get_rocky_package_version", "get_ubuntu_package_version"}

\* The call made a request that ended with URLError or HTTPError.
TransferFailed(c) ==
    /\ c.net # <<>>
    /\ c.net[1].response.status \in {"URLError", "HTTPError"}

\* C12: a call of a function built on get_data whose request ended with
\* URLError or HTTPError raises that same error.
C12_TransferFailureSurfaced ==
    /\ this_call.fn \in GetDataCallers
    /\ TransferFailed(this_call)
    => this_call.kind = "raise" /\ this_call.val = this_call.net[1].response.status

(***************************************************************************)
(* C13. An extraction pattern that finds nothing, or another package,      *)
(* yields no version.                                                      *)
(***************************************************************************)

\* The package a source file NAME-VERSION-RELEASE of a listing belongs to.
rpm_name(stem) ==
    LET dashes == { i \in DOMAIN stem : stem[i] = "-" }
        before(k) == { i \in dashes : i < k }
        Max(S) == CHOOSE i \in S : \A k \in S : k <= i
    IN  IF dashes = {} \/ before(Max(dashes)) = {} THEN stem
        ELSE SubSeq(stem, 1, Max(before(Max(dashes))) - 1)

\* The first file of the listing the pattern of get_rocky_package_version
\* matches in, or <<>>.
rocky_matched_file(pkg, links) ==
    LET head  == pkg \o <<"-">>
        found == { i \in DOMAIN links :
                     Len(links[i]) > Len(head) /\ SubSeq(links[i], 1, Len(head)) = head }
    IN  IF found = {} THEN <<>>
        ELSE links[CHOOSE i \in found : \A k \in found : i <= k]

\* The call received a response text in which the function's pattern has no
\* match, or a match that belongs to another package than the requested one.
PatternMissed(c) ==
    \/ /\ c.fn = "generate.get_alpine_pkg_string"
       /\ c.net # <<>>
       /\ c.net[1].status = "ok"
       /\ LET m == apkbuild_search(c.net[1].words)
          IN  m = <<>> \/ m[1] # c.args[2]
    \/ /\ c.fn = "get_debian_package_version"
       /\ c.net # <<>>
       /\ c.net[1].response.status = "ok"
       /\ \A i \in DOMAIN c.net[1].response.body.value.versions :
              c.net[1].response.body.value.versions[i].suites # <<c.args[1]>>
    \/ /\ c.fn = "get_rocky_package_version"
       /\ c.net # <<>>
       /\ c.net[1].response.status = "ok"
       /\ LET pkg  == CHOOSE p \in RockyPkgInputs : Str(p) = c.args[2]
              file == rocky_matched_file(pkg, c.net[1].response.body.links)
          IN  file = <<>> \/ rpm_name(file) # pkg

\* C13: a call whose pattern finds nothing in the response, or finds another
\* package than the requested one, ends with an exception or with None; it
\* returns no version string.
C13_NoMatchIsFailure ==
    PatternMissed(this_call) => this_call.kind = "raise" \/ this_call.val = None

(***************************************************************************)
(* C14. The Content-Type header of a request.                              *)
(***************************************************************************)

DefaultContentType == "text/html; charset=utf-8"

\* The call has built a request and its header Content-Type is content_type.
RequestCarries(c, content_type) ==
    /\ c.net # <<>>
    /\ c.net[1].req.headers["Content-Type"] = content_type

\* C14: the request of a get_data call carries the content type the caller
\* gave, or the default when the caller gave None; the call sites that give
\* none, get_rocky_package_version (None) and get_alpine_package_version (no
\* argument), have built a request that carries the default once they are
\* past their own pattern.
C14_ContentTypeHeader ==
    /\ this_call.fn = "get_data"
       => RequestCarries(this_call, IF this_call.args[2] # None THEN this_call.args[2]
                                    ELSE DefaultContentType)
    /\ this_call.fn = "get_rocky_package_version" /\ this_call.net # <<>>
       => RequestCarries(this_call, DefaultContentType)
    /\ /\ this_call.fn = "get_alpine_package_version"
       /\ release_prefix(CHOOSE r \in AlpineReleaseInputs : Str(r) = this_call.args[1]) # <<>>
       => RequestCarries(this_call, DefaultContentType)

(***************************************************************************)
(* C15. The form of a resolved version string.                             *)
(***************************************************************************)

\* The values the words of an APKBUILD assign with key.
Assigned(words, key) == { words[i].v : i \in { i \in DOMAIN words : words[i].k = key } }

\* s is a part of the file name stem, taken as it stands.
IsPartOf(s, stem) ==
    \E i \in 1..Len(stem), k \in 1..Len(stem) : i <= k /\ s = Str(SubSeq(stem, i, k))

\* C15: the string get_alpine_pkg_string returns is NAME=VER-rREL for values
\* the response assigns to pkgname, pkgver and pkgrel, NAME being the requested
\* package; the string the Debian, Rocky and Ubuntu functions return is a
\* version of the response as it stands there.
C15_ResolvedStringForm ==
    /\ /\ this_call.fn = "generate.get_alpine_pkg_string"
       /\ this_call.kind = "return"
       /\ this_call.val # None
       => \E ver \in Assigned(this_call.net[1].words, "pkgver="),
             rel \in Assigned(this_call.net[1].words, "pkgrel=") :
              /\ this_call.args[2] \in Assigned(this_call.net[1].words, "pkgname=")
              /\ this_call.val = this_call.args[2] \o "=" \o ver \o "-r" \o rel
    /\ this_call.fn = "get_debian_package_version" /\ this_call.kind = "return"
       => \E i \in DOMAIN this_call.net[1].response.body.value.versions :
              this_call.val = Str(this_call.net[1].response.body.value.versions[i].version)
    /\ this_call.fn = "get_rocky_package_version" /\ this_call.kind = "return"
       => \E i \in DOMAIN this_call.net[1].response.body.links :
              IsPartOf(this_call.val, this_call.net[1].response.body.links[i])
    /\ /\ this_call.fn = "get_ubuntu_package_version"
       /\ this_call.kind = "return"
       /\ this_call.val # None
       => \E i \in DOMAIN this_call.net[1].response.body.value.entries :
              this_call.val = this_call.net[1].response.body.value.entries[i].value.source_package_version

\* get_alpine_pkg_string("3.15.6", "perl") of generate.py read an APKBUILD
\* with pkgname=perl, pkgver=5.34.0 and pkgrel=1 and returned the string.
C15_Witness ==
    /\ this_call.fn = "generate.get_alpine_pkg_string"
    /\ this_call.args = <<"3.15.6", "perl">>
    /\ this_call.net = << [status |-> "ok", words |-> Apkbuild("perl", "5.34.0", "1")] >>
    /\ this_call.kind = "return"
    /\ this_call.val = "perl=5.34.0-r1"

(***************************************************************************)
(* C16. The rendered package block is in alphabetical order.               *)
(***************************************************************************)

\* The package names of the calls, in ascending alphabetical order.
AlphabeticalOrder == <<"alpine-sdk", "gawk", "linux-headers", "openrc", "perl">>

\* The names of pkg_name_arr in ascending alphabetical order.
Ascending(pkg_name_arr) ==
    LET Listed(name) == \E i \in DOMAIN pkg_name_arr : pkg_name_arr[i] = name
    IN  SelectSeq(AlphabeticalOrder, Listed)

\* C16: a call of get_alpine_pkgs with package names in any order returns a
\* block, and the block is the one of the same names in ascending alphabetical
\* order.
C16_RenderedAscending ==
    this_call.fn = "get_alpine_pkgs" /\ this_call.args[2] # <<>>
    => /\ this_call.kind = "return"
       /\ this_call.val = get_alpine_pkgs(this_call.args[1], Ascending(this_call.args[2])).val

(***************************************************************************)
(* C17. Interleaved calls of get_alpine_pkgs do not see each other.        *)
(***************************************************************************)

\* The list of a call that has taken n packages, when nothing else runs.
OutputAlone(tag, pkg_name_arr, n) ==
    [i \in 1..n |-> get_alpine_pkg_string(tag, pkg_name_arr[i]).val]

\* C17: however the statements of two calls of get_alpine_pkgs interleave, the
\* list of each call holds the strings of its own packages only, in its own
\* order, and a finished call has the outcome get_alpine_pkgs has for its
\* arguments when it runs alone.
C17_CallsIndependent ==
    \A p \in Callers :
        LET f == frames[p]
        IN  /\ f.pc # "none" => f.output = OutputAlone(f.tag, f.pkg_name_arr, f.taken)
            /\ f.pc = "done" =>
                   [kind |-> f.kind, val |-> f.val] = get_alpine_pkgs(f.tag, f.pkg_name_arr)

\* Both calls are in their loop with different package lists, and each has
\* appended the string of its first package.
C17_Witness ==
    /\ frames["first"].pc = "loop"
    /\ frames["second"].pc = "loop"
    /\ frames["first"].tag = "0.3.0"
    /\ frames["first"].pkg_name_arr = <<"gawk", "perl">>
    /\ frames["first"].taken = 1
    /\ frames["second"].pkg_name_arr = <<"perl">>
    /\ frames["second"].taken = 1

(***************************************************************************)
(* C18. Every supported release resolves every dispatched dependency.      *)
(***************************************************************************)

\* C18: a dispatch lookup of one of the 14 dependency names with a tag that
\* perseus_deps lists returns a version, not None.
C18_ListedTagResolves ==
    /\ IsDispatchCall(this_call)
    /\ this_call.args[1] \in TableTags(perseus_deps_source.install)
    /\ this_call.args[2] \in DispatchNames
    => this_call.kind = "return" /\ this_call.val # None

(***************************************************************************)
(* C19. One set of distribution names for every component.                 *)
(***************************************************************************)

\* The five registry URLs install.py defines.
RegistryUrls == {ALPINE_URL, DEBIAN_URL, FEDORA_URL, ROCKY_URL, UBUNTU_URL}

\* C19: get_live_os_string fetches for exactly the names get_latest_distribution
\* has a pattern for, and get_latest_distribution has a pattern for the name of
\* each of the five registry URLs.
C19_SameDistributionNames ==
    /\ this_call.fn = "get_live_os_string"
       => (this_call.net # <<>> <=> this_call.args[1] \in PatternNames)
    /\ /\ this_call.fn = "get_latest_distribution"
       /\ \E u \in RegistryUrls : this_call.args[1] = UrlString(u)
       => this_call.val # "UnboundLocalError"

(***************************************************************************)
(* C20. The stages of a generated manifest refer to earlier stages only.   *)
(***************************************************************************)

\* The stages that stage i of a manifest depends on: the stage of its base
\* reference and the stages it copies from.
DependsOn(stages, i) ==
    (IF stages[i].baseRef.kind = "stage" THEN {stages[i].baseRef.name} ELSE {})
    \cup { stages[i].instructions[k].arg :
             k \in { k \in DOMAIN stages[i].instructions : stages[i].instructions[k].op = "copy" } }

\* The position of the stage called name, 0 when there is none.
StageIndex(stages, name) ==
    IF \E i \in DOMAIN stages : stages[i].name = name
    THEN CHOOSE i \in DOMAIN stages : stages[i].name = name
    ELSE 0

\* C20: in the manifest generate returns, every stage depends on stages
\* declared before it only; base is first; each binary-tool stage and the
\* framework stage depend on base alone; assembly depends on framework and on
\* every binary-tool stage; runtime is last, is based on the image of the
\* distribution and copies from assembly alone.
C20_StagesReferEarlier ==
    this_call.fn = "generate" =>
        LET stages == this_call.val
            n      == Len(stages)
            tools  == { this_call.args[1][k].name :
                          k \in { k \in DOMAIN this_call.args[1] :
                                    this_call.args[1][k].sourceKind = "binary-release" } }
            At(name) == StageIndex(stages, name)
        IN  /\ \A i, j \in 1..n : stages[i].name = stages[j].name => i = j
            /\ \A i \in 1..n : \A name \in DependsOn(stages, i) :
                   At(name) # 0 /\ At(name) < i
            /\ stages[1].name = "base"
            /\ \A name \in tools \cup {"framework"} :
                   At(name) # 0 /\ DependsOn(stages, At(name)) = {"base"}
            /\ At("assembly") # 0
            /\ DependsOn(stages, At("assembly")) = {"framework"} \cup tools
            /\ stages[n].name = "runtime"
            /\ stages[n].baseRef = ImageRef(this_call.args[2])
            /\ DependsOn(stages, n) = {"assembly"}

\* generate was called with three binary-release dependencies for alpine and
\* returned seven stages.
C20_Witness ==
    /\ this_call.fn = "generate"
    /\ this_call.args[2] = "alpine"
    /\ Len(this_call.args[1]) = 5
    /\ Len(this_call.val) = 7
    /\ this_call.val[5].name = "framework"

(***************************************************************************)
(* C21. The values of get_alpine_version.                                  *)
(***************************************************************************)

\* The tag is three numbers separated by dots and nothing else.
IsThreeNumbers(tag) ==
    LET parts == Split(tag, ".")
    IN  /\ Len(parts) = 3
        /\ \A k \in 1..3 : /\ parts[k] # <<>>
                           /\ \A i \in 1..Len(parts[k]) : parts[k][i] \in Digits

\* The Alpine version that belongs to a tag: "3.15.6" for 0.3.0 to 0.3.5,
\* "3.16.2" for three numbers with major 0 and minor above 3, else None.
AlpineVersionOf(tag) ==
    IF Str(tag) \in {"0.3.0", "0.3.1", "0.3.2", "0.3.3", "0.3.4", "0.3.5"} THEN "3.15.6"
    ELSE IF /\ IsThreeNumbers(tag)
            /\ int(Split(tag, ".")[1]) = 0
            /\ int(Split(tag, ".")[2]) > 3
    THEN "3.16.2"
    ELSE None

\* C21: a call of get_alpine_version, of either script, returns "3.15.6" for
\* the tags 0.3.0 to 0.3.5, "3.16.2" for a tag of three dot-separated numbers
\* with major 0 and minor above 3, and None for every other tag; the two
\* copies return the same for the tag.
C21_AlpineVersionValues ==
    IsAlpineVersionCall(this_call) =>
        LET tag == TagChars(this_call.args[1])
        IN  /\ this_call.kind = "return"
            /\ this_call.val = AlpineVersionOf(tag)
            /\ get_alpine_version(tag) = get_alpine_version_generate(tag)

(***************************************************************************)
(* C22. get_alpine_version agrees with the Alpine version of the table.    *)
(***************************************************************************)

\* The table of the script a call belongs to.
TableOf(c) ==
    IF c.fn \in {"generate.get_alpine_version", "get_granular_dependency_version"}
    THEN perseus_deps_source.generate ELSE perseus_deps_source.install

\* The operating system versions a table records for the release tag.
TableOsVersions(table, tag) ==
    { r.os.version : r \in { r \in Releases(table) : r.tag = tag } }

\* C22: a call of get_alpine_version with the tag of a release of perseus_deps
\* returns the Alpine version the entry of that release records.
C22_AlpineVersionIsTableVersion ==
    /\ IsAlpineVersionCall(this_call)
    /\ this_call.args[1] \in TableTags(TableOf(this_call))
    => /\ this_call.kind = "return"
       /\ this_call.val \in TableOsVersions(TableOf(this_call), this_call.args[1])

(***************************************************************************)
(* C23. The dispatch lookups agree with the table.                         *)
(***************************************************************************)

\* C23: a dispatch lookup with the tag of a release of perseus_deps and a
\* dependency name that the entry of that release lists returns the version
\* the entry records for the name.
C23_LookupIsTableVersion ==
    /\ IsDispatchCall(this_call)
    /\ TableVersions(TableOf(this_call), this_call.args[1], this_call.args[2]) # {}
    => /\ this_call.kind = "return"
       /\ this_call.val \in TableVersions(TableOf(this_call), this_call.args[1], this_call.args[2])

(***************************************************************************)
(* C24. The two scripts are the same lookup and the same table.            *)
(***************************************************************************)

\* C24: what a dispatch lookup of one script returns is what the lookup of
\* the other script returns for the same tag and name, and the tables of the
\* two scripts list the same releases with the same names and versions in the
\* same order.
C24_ScriptsEquivalent ==
    /\ this_call.fn = "get_dep_version"
       => this_call.val = get_granular_dependency_version(this_call.args[1], this_call.args[2])
    /\ this_call.fn = "get_granular_dependency_version"
       => this_call.val = get_dep_version(this_call.args[1], this_call.args[2])
    /\ perseus_deps_source.install = perseus_deps_source.generate

\* get_granular_dependency_version("0.4.0-beta.5", "serve") returned "14.0.1",
\* and both tables hold 13 releases.
C24_Witness ==
    /\ this_call.fn = "get_granular_dependency_version"
    /\ this_call.args = <<"0.4.0-beta.5", "serve">>
    /\ this_call.val = "14.0.1"
    /\ Len(perseus_deps_source.install) = 13
    /\ Len(perseus_deps_source.generate) = 13

(***************************************************************************)
(* C25. alpine_packages when install.py is loaded.                         *)
(***************************************************************************)

\* C25: the load of install.py with perseus_version "0.3.0" completes and
\* binds alpine_packages to a string, not None and not empty, for the five
\* packages it lists.
C25_AlpinePackagesAtLoad ==
    this_call.fn = "install.py" /\ this_call.args[1] = "0.3.0"
    => /\ this_call.kind = "return"
       /\ this_call.val.alpine_packages \notin {None, ""}

(***************************************************************************)
(* C26. Each registry URL selects a pattern of get_latest_distribution.    *)
(***************************************************************************)

\* C26: in a call of get_latest_distribution with one of the five registry
\* URLs, the name taken from the URL is one of the five names that have a
\* pattern, and the call does not end for want of a pattern.
C26_UrlSelectsPattern ==
    \A u \in RegistryUrls :
        this_call.fn = "get_latest_distribution" /\ this_call.args[1] = UrlString(u)
        => /\ Str(repositories_search(u)) \in PatternNames
           /\ ~(this_call.kind = "raise" /\ this_call.val = "UnboundLocalError")

(***************************************************************************)
(* C27. patch accepts every supported release tag.                         *)
(***************************************************************************)

\* C27: a call of patch with the tag of a release of perseus_deps, with or
\* without a pre-release suffix, returns; it does not raise.
C27_PatchAcceptsReleaseTags ==
    this_call.fn = "patch" /\ this_call.args[1] \in TableTags(perseus_deps_source.install)
    => this_call.kind = "return"

(***************************************************************************)
(* C28. get_alpine_pkg_string fetches for the two Alpine versions only.    *)
(***************************************************************************)

\* The string s starts with the string head.
StartsWith(s, head) == Len(s) >= Len(head) /\ SubSeq(s, 1, Len(head)) = head

\* C28: a call of get_alpine_pkg_string, of either script, has made a request
\* only if its tag is "3.15.6" or "3.16.2"; with any other tag it returns None
\* and has made none; and a string it returns starts with the requested
\* package name and "=".
C28_FetchOnlyForAlpineTags ==
    this_call.fn \in {"get_alpine_pkg_string", "generate.get_alpine_pkg_string"} =>
        /\ this_call.net # <<>> => this_call.args[1] \in AlpineCaseTags
        /\ this_call.args[1] \notin AlpineCaseTags
           => this_call.kind = "return" /\ this_call.val = None /\ this_call.net = <<>>
        /\ this_call.kind = "return" /\ this_call.val # None
           => StartsWith(this_call.val, this_call.args[2] \o "=")

\* get_alpine_pkg_string("3.16.2", "gawk") of generate.py made its request and
\* returned the string of gawk.
C28_Witness ==
    /\ this_call.fn = "generate.get_alpine_pkg_string"
    /\ this_call.args = <<"3.16.2", "gawk">>
    /\ Len(this_call.net) = 1
    /\ this_call.kind = "return"
    /\ this_call.val = "gawk=5.1.1-r0"

(***************************************************************************)
(* C29. Pinned versions do not regress from one release to the next.       *)
(***************************************************************************)

\* The characters of a string.
Chars(s) == [i \in 1..Len(s) |-> SubSeq(s, i, i)]

\* The numbers of a version, in order: its maximal runs of digits.
RECURSIVE VersionNumbers(_)
VersionNumbers(cs) ==
    IF cs = <<>> THEN <<>>
    ELSE IF cs[1] \in Digits
    THEN LET r == Run(cs, Digits)
         IN  <<int(r)>> \o VersionNumbers(SubSeq(cs, Len(r) + 1, Len(cs)))
    ELSE VersionNumbers(Tail(cs))

\* a is not above b, component by component from the left.
RECURSIVE NumbersLeq(_, _)
NumbersLeq(a, b) ==
    IF a = <<>> THEN TRUE
    ELSE IF b = <<>> THEN FALSE
    ELSE IF a[1] # b[1] THEN a[1] < b[1]
    ELSE NumbersLeq(Tail(a), Tail(b))

VersionLeq(v, w) == NumbersLeq(VersionNumbers(Chars(v)), VersionNumbers(Chars(w)))

\* In the table, no dependency has a lower version in a later release.
TableNeverRegresses(table) ==
    \A i, j \in DOMAIN table :
        i < j =>
            \A a \in DOMAIN table[i].os.dep, b \in DOMAIN table[j].os.dep :
                table[i].os.dep[a].name = table[j].os.dep[b].name
                => VersionLeq(table[i].os.dep[a].version, table[j].os.dep[b].version)

\* C29: in perseus_deps no dependency has, in a later release, a version below
\* the one of an earlier release, compared number by number; and a version a
\* dispatch lookup returns for a listed release is not below the one it
\* returns for an earlier listed release.
C29_VersionsNeverRegress ==
    /\ TableNeverRegresses(perseus_deps_source.install)
    /\ TableNeverRegresses(perseus_deps_source.generate)
    /\ IsDispatchCall(this_call) /\ this_call.val # None
       => \A i, j \in DOMAIN perseus_deps_source.install :
              /\ i < j
              /\ perseus_deps_source.install[j].tag = this_call.args[1]
              /\ get_dep_version(perseus_deps_source.install[i].tag, this_call.args[2]) # None
              => VersionLeq(get_dep_version(perseus_deps_source.install[i].tag, this_call.args[2]),
                            this_call.val)

(***************************************************************************)
(* C30. The order of the table.                                            *)
(***************************************************************************)

\* The characters of dependency names, in ascending order.
CharOrder ==
    << "-", "0", "1", "2", "3", "4", "5", "6", "7", "8", "9",
       "a", "b", "c", "d", "e", "f", "g", "h", "i", "j", "k", "l", "m",
       "n", "o", "p", "q", "r", "s", "t", "u", "v", "w", "x", "y", "z" >>

CharRank(c) == CHOOSE i \in DOMAIN CharOrder : CharOrder[i] = c

\* Name a comes before name b in alphabetical order.
NameBefore(a, b) ==
    LET ranks(s) == [i \in 1..Len(s) |-> CharRank(SubSeq(s, i, i))]
    IN  ranks(a) # ranks(b) /\ NumbersLeq(ranks(a), ranks(b))

\* The numbers that order a release tag: the numbers of its version, then 1
\* for a release proper, or 0 and the numbers of the suffix for a pre-release.
ReleaseKey(tag) ==
    LET cs   == Chars(tag)
        head == Run(cs, ReleaseChars)
        rest == SubSeq(cs, Len(head) + 1, Len(cs))
    IN  VersionNumbers(head) \o (IF rest = <<>> THEN <<1>> ELSE <<0>> \o VersionNumbers(rest))

ReleaseBefore(s, t) ==
    ReleaseKey(s) # ReleaseKey(t) /\ NumbersLeq(ReleaseKey(s), ReleaseKey(t))

\* The dependencies of every release of the table are in strictly ascending
\* alphabetical order of their names, and its releases are in strictly
\* ascending release order.
TableOrdered(table) ==
    /\ \A r \in Releases(table) :
           \A i \in DOMAIN r.os.dep :
               i > 1 => NameBefore(r.os.dep[i - 1].name, r.os.dep[i].name)
    /\ \A i \in DOMAIN table :
           i > 1 => ReleaseBefore(table[i - 1].tag, table[i].tag)

InstallTableOrdered == TableOrdered(perseus_deps_install)

GenerateTableOrdered == TableOrdered(perseus_deps_generate)

\* C30: a script that has bound perseus_deps holds the list of its source, and
\* in the lists of both sources the
\* dependencies of every release are in strictly ascending alphabetical order
\* of their names and the releases are in strictly ascending release order,
\* so no tag is listed twice.
C30_TableOrdered ==
    /\ BoundTablesAreSource
    /\ InstallTableOrdered
    /\ GenerateTableOrdered

\* Both tables list the 13 releases from 0.3.0 to 0.4.0-beta.7, release
\* 0.4.0-beta.7 with its 22 dependencies from alpine-sdk to zlib-dev, and a
\* lookup for that release has been made.
C30_Witness ==
    /\ \A s \in Scripts :
           /\ Len(perseus_deps_source[s]) = 13
           /\ perseus_deps_source[s][1].tag = "0.3.0"
           /\ perseus_deps_source[s][13].tag = "0.4.0-beta.7"
           /\ perseus_deps_source[s][13].os.dep[1].name = "alpine-sdk"
           /\ perseus_deps_source[s][13].os.dep[22].name = "zlib-dev"
    /\ perseus_deps.generate.bound
    /\ this_call.fn = "get_granular_dependency_version"
    /\ this_call.args = <<"0.4.0-beta.7", "rust">>

====
